---- MODULE Spec2Model ----
(***************************************************************************)
(* Model of the full-page screenshot extension's background script         *)
(* (class ScreenshotCapture, latest revision of the background script)     *)
(* and of the grid geometry it plans, and of the content script's          *)
(* PageScreenshotHelper.                                                   *)
(*                                                                         *)
(* Specifications:                                                         *)
(*   GeomSpec  the pure grid arithmetic of captureFullPage and the draw    *)
(*             arithmetic of combineImages, applied to bounded page        *)
(*             metrics;                                                    *)
(*   ScaleSpec the same arithmetic on pages large enough for the canvas    *)
(*             limit of combineImages;                                     *)
(*   Spec      the asynchronous life of captureScreenshot invocations on   *)
(*             the one ScreenshotCapture instance.  One action is one      *)
(*             turn of the JavaScript event loop: the code that runs from  *)
(*             the settlement of one awaited promise to the next await;    *)
(*   SortSpec  the sort that ends captureFullPage, on tiles collected in   *)
(*             any order;                                                  *)
(*   DecodeSpec the compositing script's image promises: the tiles'        *)
(*             decodes completing, failing and timing out in any order;    *)
(*   PageSpec  the content script's PageScreenshotHelper on a page with    *)
(*             images, floating elements and a media element, and the      *)
(*             background script's captures of that page;                  *)
(*   FairSpec  Spec with the scheduling the platform guarantees: timers    *)
(*             fire and awaited promises settle.                           *)
(***************************************************************************)
EXTENDS Integers, Sequences, FiniteSets, TLC

VARIABLES
    isCapturing,   \* ScreenshotCapture.isCapturing
    pc,            \* per invocation: the await it is suspended at ("idle": not running)
    run,           \* per invocation: the locals of captureScreenshot and its callees
    step,          \* what the last turn consumed, and the response it sent, if any
    metrics,       \* GeomSpec: the PageMetrics handed to the planner
    plan,          \* GeomSpec: the tiles planned from metrics, in loop order;
                   \* SortSpec, DecodeSpec: the array images
    canvas,        \* GeomSpec: the compositor's canvas and draw rectangles;
                   \* SortSpec: the sorted array; DecodeSpec: the script's state
    gpc,           \* GeomSpec: "input" -> "planned" -> "composited"
    page           \* PageSpec: the captured page and its PageScreenshotHelper

vars == <<isCapturing, pc, run, step, metrics, plan, canvas, gpc, page>>
runVars == <<isCapturing, pc, run, step>>
geomVars == <<metrics, plan, canvas, gpc>>
pageVars == <<page>>

----------------------------------------------------------------------------
(* Bounds of the model *)

NumInvocations == 2    \* concurrent message-handler invocations
MaxScroll == 3         \* largest scroll height the dimension query reports (Spec)
MaxScrollX == 2        \* largest scroll width the dimension query reports (Spec)
MaxView == 1           \* largest viewport extent the dimension query reports (Spec)
MaxTiles == 3          \* cap on the tiles of a run whose segment count is not finite
MaxPrimCalls == 4      \* cap on primitive calls within one captureScreenshotWithRetry
MaxDim == 7            \* largest scroll extent of GeomSpec's small inputs
MaxViewDim == 3        \* largest viewport extent of GeomSpec's small inputs

(* Program constants *)

MaxRetries == 3        \* captureScreenshotWithRetry(options, maxRetries = 3)
ScrollTolerance == 5   \* Math.abs(window.scrollX - scrollX) < 5

Invocations == 1..NumInvocations

Min2(a, b) == IF a < b THEN a ELSE b
Max2(a, b) == IF a > b THEN a ELSE b

----------------------------------------------------------------------------
(* JavaScript numbers of the segment arithmetic.  The page extents are     *)
(* integers; a zero viewport extent makes the quotient Infinity (or NaN    *)
(* for 0/0), which Math.floor and Math.max pass on.                        *)

Num(n) == [kind |-> "num", n |-> n]
Infinity == [kind |-> "inf", n |-> 0]
NaN == [kind |-> "nan", n |-> 0]

\* n < s for an integer n and a JavaScript number s
JsLess(n, s) ==
    CASE s.kind = "num" -> n < s.n
      [] s.kind = "inf" -> TRUE
      [] OTHER -> FALSE

\* a * b
JsTimes(a, b) ==
    CASE a.kind = "num" /\ b.kind = "num" -> Num(a.n * b.n)
      [] a.kind = "nan" \/ b.kind = "nan" -> NaN
      [] (a.kind = "num" /\ a.n = 0) \/ (b.kind = "num" /\ b.n = 0) -> NaN
      [] OTHER -> Infinity


----------------------------------------------------------------------------
(* Grid geometry of captureFullPage.  scroll and viewport are one axis of  *)
(* the page metrics: integers, scroll >= 0, viewport >= 0.                 *)

\* Math.max(1, Math.floor(scroll / viewport) + (scroll % viewport > 0 ? 1 : 0))
SegmentCountOnePastFloor(scroll, viewport) ==
    IF viewport > 0
    THEN Num(Max2(1, (scroll \div viewport) + 1))
    ELSE IF scroll = 0 THEN NaN ELSE Infinity

SegmentCount(scroll, viewport) ==
    IF viewport > 0
    THEN Num(Max2(1, (scroll \div viewport)
                     + (IF scroll % viewport > 0 THEN 1 ELSE 0)))
    ELSE IF scroll = 0 THEN NaN ELSE Infinity

\* Math.min(i * viewport, Math.max(0, scroll - viewport))
ScrollPosUnclamped(i, scroll, viewport) == i * viewport

ScrollPos(i, scroll, viewport) ==
    Min2(i * viewport, Max2(0, scroll - viewport))

\* Math.min(viewport, scroll - scrollPos)
ActualSizeTrimmed(i, scroll, viewport) ==
    Min2(viewport, scroll - i * viewport)
ActualSize(i, scroll, viewport) ==
    Min2(viewport, scroll - ScrollPos(i, scroll, viewport))

\* The geometry the loop body computes for cell (x, y) of page metrics m.
CellGeometry(m, x, y) ==
    [x |-> x, y |-> y,
     scrollX |-> ScrollPos(x, m.scrollWidth, m.viewportWidth),
     scrollY |-> ScrollPos(y, m.scrollHeight, m.viewportHeight),
     width |-> ActualSize(x, m.scrollWidth, m.viewportWidth),
     height |-> ActualSize(y, m.scrollHeight, m.viewportHeight)]

\* The entry images.push({dataUrl, x, y, width, height, timestamp}) makes of a
\* cell; the timestamp (Date.now()) is read by no code and is left out.
TileAtOrigin(g, dataUrl) ==
    [dataUrl |-> dataUrl, x |-> 0, y |-> 0, width |-> g.width, height |-> g.height]
Tile(g, dataUrl) ==
    [dataUrl |-> dataUrl, x |-> g.x, y |-> g.y, width |-> g.width, height |-> g.height]

\* segmentsX, segmentsY, totalSegments, and for a finite grid the cells
\* for (y ...) for (x ...) visits, in the order visited.
PlanGrid(m) ==
    LET segmentsX == SegmentCount(m.scrollWidth, m.viewportWidth)
        segmentsY == SegmentCount(m.scrollHeight, m.viewportHeight)
        total == JsTimes(segmentsX, segmentsY)
    IN  [segmentsX |-> segmentsX, segmentsY |-> segmentsY, totalSegments |-> total,
         cells |-> IF total.kind = "num"
                   THEN [k \in 1..total.n |->
                           CellGeometry(m, (k - 1) % segmentsX.n, (k - 1) \div segmentsX.n)]
                   ELSE <<>>]

----------------------------------------------------------------------------
(* Canvas arithmetic of combineImages (the in-page script).  The scale is  *)
(* the rational num/den; a draw coordinate is the rational c*num/den, kept *)
(* as the integer c beside the scale.  Products of a side and 32767 can   *)
(* exceed 2^31 and are formed one binary digit at a time.                  *)

MAX_CANVAS_SIZE == 32767

\* Math.max(...images.map(img => img.x)), and the same of img.y
MaxGridX(images) == CHOOSE v \in {images[k].x : k \in 1..Len(images)} :
                        \A k \in 1..Len(images) : images[k].x <= v
MaxGridY(images) == CHOOSE v \in {images[k].y : k \in 1..Len(images)} :
                        \A k \in 1..Len(images) : images[k].y <= v

TotalWidth(images) == (MaxGridX(images) + 1) * images[1].width
TotalHeight(images) == (MaxGridY(images) + 1) * images[1].height

\* scale = 1, or Math.min(MAX/totalWidth, MAX/totalHeight, 1) when a side is too long
CanvasScaleByWidth(images) ==
    IF TotalWidth(images) > MAX_CANVAS_SIZE \/ TotalHeight(images) > MAX_CANVAS_SIZE
    THEN [num |-> MAX_CANVAS_SIZE, den |-> TotalWidth(images)]
    ELSE [num |-> 1, den |-> 1]

CanvasScale(images) ==
    LET tw == TotalWidth(images)
        th == TotalHeight(images)
    IN  IF tw > MAX_CANVAS_SIZE \/ th > MAX_CANVAS_SIZE
        THEN [num |-> MAX_CANVAS_SIZE, den |-> Max2(tw, th)]
        ELSE [num |-> 1, den |-> 1]

\* scale < 0.1
PageTooLargeNever(images) == FALSE
PageTooLarge(images) ==
    LET s == CanvasScale(images) IN 10 * s.num < s.den

\* ctx.drawImage(img, x*width*scale, y*height*scale, width*scale, height*scale):
\* the four numbers before the multiplication, and the scale
DrawRect(t, scale) ==
    [dx |-> t.x * t.width, dy |-> t.y * t.height,
     dw |-> t.width, dh |-> t.height, scale |-> scale]

\* q and r with a * b = q * c + r and 0 <= r < c, for 0 <= a < c and b >= 0
RECURSIVE MulDivMod(_, _, _)
MulDivMod(a, b, c) ==
    IF b = 0 THEN [q |-> 0, r |-> 0]
    ELSE LET h == MulDivMod(a, b \div 2, c)
             r == 2 * h.r + (IF b % 2 = 1 THEN a ELSE 0)
         IN  [q |-> 2 * h.q + (r \div c), r |-> r % c]

\* Math.floor(side * scale), for a scale of at most 1
ScaledFloor(side, scale) ==
    IF scale.num = scale.den THEN side
    ELSE (side \div scale.den) * scale.num
         + MulDivMod(side % scale.den, scale.num, scale.den).q

ErrPageTooLarge == "Page too large to process"

\* The script up to canvas.toDataURL: what it computed, the canvas it sized
\* and the rectangles it drew, or the message of the error it threw before
\* sizing the canvas (width and height 0, nothing drawn).
Composite(images) ==
    LET scale == CanvasScale(images)
    IN  IF PageTooLarge(images)
        THEN [error |-> ErrPageTooLarge,
              width |-> 0, height |-> 0,
              totalWidth |-> TotalWidth(images),
              totalHeight |-> TotalHeight(images),
              scale |-> scale,
              draws |-> <<>>]
        ELSE [error |-> "",
              width |-> ScaledFloor(TotalWidth(images), scale),
              height |-> ScaledFloor(TotalHeight(images), scale),
              totalWidth |-> TotalWidth(images),
              totalHeight |-> TotalHeight(images),
              scale |-> scale,
              draws |-> [k \in 1..Len(images) |-> DrawRect(images[k], scale)]]


----------------------------------------------------------------------------
(* State of an invocation that is not running, and of a turn that sent     *)
(* nothing.                                                                *)

NoMetrics == [scrollWidth |-> 0, scrollHeight |-> 0,
              viewportWidth |-> 0, viewportHeight |-> 0]

BlankRun ==
    [fullPage |-> FALSE,        \* argument fullPage
     pageInfo |-> NoMetrics,    \* pageInfo[0].result
     segmentsX |-> Num(0), segmentsY |-> Num(0), totalSegments |-> Num(0),
     x |-> 0, y |-> 0,          \* loop variables of captureFullPage
     images |-> <<>>,           \* images
     captureSpeed |-> "",       \* options.captureSpeed as captureFullPage read it
     rateLimitDelay |-> 0,      \* RATE_LIMIT_DELAY of captureFullPage
     segmentIndex |-> 0,        \* segmentIndex
     screenshot |-> "",         \* screenshot of captureScreenshotWithRetry ("" is null)
     retryCount |-> 0,          \* retryCount of captureScreenshotWithRetry
     primCalls |-> 0,           \* history: primitive calls of the retry call under way
     log |-> <<>>,              \* history: their outcomes so far
     waits |-> <<>>,            \* history: the waitTime of each backoff timer it set
     notes |-> <<>>,            \* history: retryCount of each 'Rate limited, retrying...' status
     scrolls |-> 0,             \* history: scroll commands issued by the run
     progress |-> <<>>,         \* history: the values the run passed to updateProgress
     deviation |-> 0,           \* distance of the page from the scroll target, in px
     scrollFailed |-> FALSE,    \* history: the scroll script of the cell at hand
                                \* rejected (kept until the cell's capture starts)
     format |-> "",             \* options.format, from where the run first reads it
     composite |-> "",          \* combinedImageDataUrl once checked ("" before)
     exported |-> "",           \* the data URL given to chrome.downloads.download
                                \* or to generateAndDownloadPDF ("" before)
     downloads |-> 0]           \* history: chrome.downloads.download calls of the run

NoResponse == [kind |-> "none"]
\* The locals of a call of captureScreenshotWithRetry, with their history.
CallOf(r) == [screenshot |-> r.screenshot, retryCount |-> r.retryCount,
              primCalls |-> r.primCalls, log |-> r.log,
              waits |-> r.waits, notes |-> r.notes]

\* The error object the in-page script of combineImages answered: the
\* message, and the number in it of the tile that failed to load (0 if the
\* message names none).
NoScriptError == [message |-> "", index |-> 0]

\* step: the invocation that ran the last turn, the await it resumed from,
\* the outcome it consumed, the call of captureScreenshotWithRetry that
\* returned or threw in it, whether the scroll script of the cell at hand
\* had rejected when the turn began, the error of a tile capture that failed
\* in it ("" if none), the error object of the compositing script it read
\* and the place in images of the tile whose promise rejected first in that
\* script (0 if none), the progress values it notified through
\* updateProgress, in order, the delay of the pacing timer it started (0 if
\* none), the response the message listener sent and the locals of the run
\* it ended.
NoStep == [inv |-> 0, from |-> "idle", got |-> "", call |-> CallOf(BlankRun),
           scrollFailed |-> FALSE,
           tileError |-> "",
           scriptError |-> NoScriptError, failedTile |-> 0, progress |-> <<>>,
           paced |-> 0,
           sent |-> NoResponse, ended |-> BlankRun]
Turn(i, got) == [NoStep EXCEPT !.inv = i, !.from = pc[i], !.got = got,
                                !.scrollFailed = run[i].scrollFailed]

\* updateProgress(progress), lines 753-764: the value is sent to the popup
UpdateProgress(e, progress) == [e EXCEPT !.progress = Append(@, progress)]

\* the locals r of the run that sent it, with the value in their history
Progressed(r, progress) == [r EXCEPT !.progress = Append(@, progress)]

\* Math.round(p / q) for integers p >= 0 and q > 0: the nearest integer,
\* halves upwards
RoundHalfUp(p, q) == (2 * p + q) \div (2 * q)

\* Math.round((segmentIndex / totalSegments) * 80) + 20, line 204
TileProgressFloor(segmentIndex, totalSegments) ==
    CASE totalSegments.kind = "inf" -> Num(20)
      [] totalSegments.kind = "nan" -> NaN
      [] totalSegments.n = 0 -> IF segmentIndex = 0 THEN NaN ELSE Infinity
      [] OTHER -> Num((80 * segmentIndex) \div totalSegments.n + 20)
TileProgress(segmentIndex, totalSegments) ==
    CASE totalSegments.kind = "inf" -> Num(20)
      [] totalSegments.kind = "nan" -> NaN
      [] totalSegments.n = 0 -> IF segmentIndex = 0 THEN NaN ELSE Infinity
      [] OTHER -> Num(RoundHalfUp(80 * segmentIndex, totalSegments.n) + 20)

----------------------------------------------------------------------------
(* PageSpec: the content script's PageScreenshotHelper in the page.        *)
(* page.img is each image's state (img.complete is "not pending"),         *)
(* page.promises the unresolved promises waitForImages created for it      *)
(* (each with its own 5-second timer), page.display the style.display of   *)
(* each floating element and page.authored the value the page gave it,     *)
(* page.media the one media element, page.headStyles the style elements    *)
(* the helper appended to document.head, page.options the options of the   *)
(* last prepareForScreenshot call, page.prepared the calls that have       *)
(* returned, page.captures the tiles captured since the last of them.      *)

NumImages == 1         \* <img> elements of the page
NumElements == 2       \* elements matched by cleanupPage's selector
MaxPrepares == 2       \* prepareForScreenshot calls on one page
MaxPageCaptures == 2   \* tiles captured after one prepare

Images == 1..NumImages
Elements == 1..NumElements
Displays == {"", "block", "none"}
ScrollbarStyle == "screenshot-extension-scrollbar-hide"
PrepareOptions == [hideScrollbar : BOOLEAN, waitForImages : BOOLEAN]

NoPage == [img |-> <<>>, promises |-> <<>>, display |-> <<>>, authored |-> <<>>,
           originalStyles |-> <<>>, injectedElements |-> <<>>, headStyles |-> <<>>,
           media |-> [autoplay |-> FALSE, paused |-> FALSE, opacity |-> ""],
           options |-> [hideScrollbar |-> FALSE, waitForImages |-> FALSE],
           prepared |-> 0, captures |-> 0]

\* constructor (lines 4-7) on a page as it was loaded
LoadedPage(img, display, media) ==
    [NoPage EXCEPT !.img = img, !.promises = [k \in Images |-> 0],
                   !.display = display, !.authored = display, !.media = media]

PageInit ==
    /\ page \in {LoadedPage(img, d, [autoplay |-> a, paused |-> FALSE, opacity |-> o]) :
                    img \in [Images -> {"pending", "loaded"}],
                    d \in [Elements -> Displays],
                    a \in BOOLEAN, o \in {"", "0.5"}}
    /\ isCapturing = FALSE
    /\ pc = [i \in Invocations |-> "idle"]
    /\ run = [i \in Invocations |-> BlankRun]
    /\ step = NoStep
    /\ metrics = NoMetrics
    /\ plan = <<>>
    /\ canvas = <<>>
    /\ gpc = "off"

\* hideScrollbars(hide), lines 17-37
HideScrollbars(p, hide) ==
    IF ~hide THEN p
    ELSE [p EXCEPT !.headStyles = Append(@, ScrollbarStyle),
                   !.injectedElements = Append(@, ScrollbarStyle)]

\* waitForImages(wait), lines 40-61, up to its await: one promise for each
\* image that is not complete
WaitForImages(p, wait) ==
    IF ~wait \/ NumImages = 0 THEN p
    ELSE [p EXCEPT !.promises =
              [k \in Images |-> IF p.img[k] = "pending" THEN @[k] + 1 ELSE @[k]]]

\* cleanupPage(options), lines 64-85
CleanupPageRecordsHidden(p) ==
    [p EXCEPT !.originalStyles = [e \in Elements |-> p.display[e]],
              !.display = [e \in Elements |-> "none"],
              !.media = IF @.autoplay
                        THEN [@ EXCEPT !.paused = TRUE, !.opacity = "0"]
                        ELSE @]
CleanupPage(p) ==
    LET hidden == {e \in Elements : p.display[e] # "none"}
    IN  [p EXCEPT !.originalStyles =
                      [e \in (DOMAIN @) \cup hidden |->
                          IF e \in hidden THEN p.display[e] ELSE @[e]],
                  !.display = [e \in Elements |-> "none"],
                  !.media = IF @.autoplay
                            THEN [@ EXCEPT !.paused = TRUE, !.opacity = "0"]
                            ELSE @]

\* prepareForScreenshot(options), lines 10-14: the three calls in order;
\* the promise of waitForImages is dropped and the method returns
PrepareForScreenshot(options) ==
    /\ page.prepared < MaxPrepares
    /\ page' = [CleanupPage(WaitForImages(HideScrollbars(page, options.hideScrollbar),
                                          options.waitForImages))
                  EXCEPT !.options = options, !.prepared = @ + 1, !.captures = 0]
    /\ UNCHANGED <<runVars, geomVars>>

\* the image's load or error event, lines 52-53: both resolve its promises
ImageSettles(k, how) ==
    /\ page.img[k] = "pending"
    /\ page' = [page EXCEPT !.img[k] = how, !.promises[k] = 0]
    /\ UNCHANGED <<runVars, geomVars>>

\* setTimeout(resolve, 5000), line 56, of one unresolved promise
ImageTimeout(k) ==
    /\ page.promises[k] > 0
    /\ page' = [page EXCEPT !.promises[k] = @ - 1]
    /\ UNCHANGED <<runVars, geomVars>>

\* the background script's next tile: preparePage has awaited the script
\* that called prepareForScreenshot (background lines 44-48), and
\* captureFullPage captures once its own delays have passed (line 175)
CaptureTile ==
    /\ page.prepared > 0
    /\ page.captures < MaxPageCaptures
    /\ page' = [page EXCEPT !.captures = @ + 1]
    /\ UNCHANGED <<runVars, geomVars>>

\* if (element.parentNode) element.parentNode.removeChild(element), for a
\* style element of document.head
RECURSIVE RemoveChild(_, _)
RemoveChild(head, element) ==
    IF head = <<>> THEN <<>>
    ELSE IF Head(head) = element THEN Tail(head)
    ELSE <<Head(head)>> \o RemoveChild(Tail(head), element)

\* this.injectedElements.forEach(element => ...), lines 116-120
RECURSIVE RemoveInjected(_, _)
RemoveInjected(head, injected) ==
    IF injected = <<>> THEN head
    ELSE RemoveInjected(RemoveChild(head, Head(injected)), Tail(injected))

\* restorePage(), lines 114-134 (message 'restorePage' and beforeunload)
RestorePage ==
    /\ page' = [page EXCEPT
                  !.headStyles = RemoveInjected(@, page.injectedElements),
                  !.injectedElements = <<>>,
                  !.display = [e \in Elements |->
                                  IF e \in DOMAIN page.originalStyles
                                  THEN page.originalStyles[e] ELSE @[e]],
                  !.originalStyles = <<>>,
                  !.media.opacity = ""]
    /\ UNCHANGED <<runVars, geomVars>>

PageNext ==
    \/ \E options \in PrepareOptions : PrepareForScreenshot(options)
    \/ \E k \in Images, how \in {"loaded", "errored"} : ImageSettles(k, how)
    \/ \E k \in Images : ImageTimeout(k)
    \/ CaptureTile
    \/ RestorePage

PageSpec == PageInit /\ [][PageNext]_vars

----------------------------------------------------------------------------
(* Spec: invocations of captureScreenshot through the message listener.    *)

\* What the external primitives can answer.  The dimension query measures a
\* document in a window, one of them possibly of no extent, or an empty
\* document in a window of no extent.
MetricsReported ==
    [scrollWidth : 1..MaxScrollX, scrollHeight : 1..MaxScroll,
     viewportWidth : 0..MaxView, viewportHeight : 0..MaxView]
    \cup {NoMetrics}
ImageData == "data:image/png"
\* Where window.scrollTo leaves the page, as the larger of its two distances
\* from the target: a page that follows the command, and a page that stays
\* just inside or just outside the tolerance (its document cannot scroll
\* that far, or not at all).
ScrollDeviations == {0, ScrollTolerance - 1, ScrollTolerance}
CaptureOutcomes == {ImageData, "garbage", "", "rateLimited", "error"}
Formats == {"png", "jpeg", "pdf"}

\* s && s.startsWith('data:image/')
AcceptsAnyValue(s) == TRUE
IsImageData(s) == s = ImageData

ErrInProgress == "Screenshot capture already in progress"
ErrDimensionsAccess == "Unable to access page dimensions. Please ensure the page is fully loaded."
ErrDimensionsEmpty == "Failed to retrieve page dimensions"
ErrExhausted == "Failed to capture screenshot after multiple retries"
ErrInvalidTile == "Invalid screenshot data received for segment"
ErrNoImages == "No images were captured during the screenshot process"
ErrPrimitive == "captureVisibleTab failed"
ErrTabsQuery == "tabs.query failed"
ErrNoTab == "Cannot read properties of undefined (reading 'id')"
ErrScript == "executeScript failed"
ErrNoResult == "Content script execution failed - no result returned"
ErrCombine == "Failed to combine images"
ErrDownload == "downloads.download failed"
ErrPdfNoResult == "Failed to process images for PDF - no result returned"
ErrPdfProcess == "Failed to process images for PDF"
ErrSinglePdf == "Failed to process single image for PDF"
ErrPdfTab == "Failed to open PDF tab"

Init ==
    /\ isCapturing = FALSE
    /\ pc = [i \in Invocations |-> "idle"]
    /\ run = [i \in Invocations |-> BlankRun]
    /\ step = NoStep
    /\ metrics = NoMetrics
    /\ plan = <<>>
    /\ canvas = <<>>
    /\ gpc = "off"
    /\ page = NoPage

\* if (this.isCapturing) throw ...
GuardNeverRejects(flag) == FALSE
GuardRejects(flag) == flag

\* finally { this.isCapturing = false; }: the flag after a run that left
\* the try block, by return (threw = FALSE) or by throw (threw = TRUE)
GuardKeptOnThrow(threw) == threw
GuardAfterRun(threw) == FALSE

\* invocation i suspends at the await `at` with locals r
Suspend(i, r, at, e) ==
    /\ pc' = [pc EXCEPT ![i] = at]
    /\ run' = [run EXCEPT ![i] = r]
    /\ step' = e
    /\ UNCHANGED <<isCapturing, geomVars, pageVars>>

\* the run of invocation i leaves captureScreenshot with locals r: the
\* finally block, then the listener's then/catch sends the response
Finish(i, r, e, response, threw) ==
    /\ isCapturing' = GuardAfterRun(threw)
    /\ pc' = [pc EXCEPT ![i] = "idle"]
    /\ run' = [run EXCEPT ![i] = BlankRun]
    /\ step' = [e EXCEPT !.sent = response, !.ended = r]
    /\ UNCHANGED <<geomVars, pageVars>>

Throw(i, r, e, message) ==
    Finish(i, r, e, [kind |-> "error", error |-> message], TRUE)

Return(i, r, e, filename) ==
    Finish(i, r, e, [kind |-> "success", filename |-> filename], FALSE)

\* captureScreenshot up to its first await (lines 8-17, 41-48).  The
\* argument fullPage is not read by a call the guard rejects.
CaptureScreenshotGuardInTry(i) ==
    /\ pc[i] = "idle"
    /\ IF GuardRejects(isCapturing)
       THEN /\ step' = [Turn(i, "call") EXCEPT
                          !.sent = [kind |-> "error", error |-> ErrInProgress]]
            /\ isCapturing' = FALSE
            /\ UNCHANGED <<pc, run, geomVars, pageVars>>
       ELSE \E fullPage \in BOOLEAN :
            /\ isCapturing' = TRUE
            /\ pc' = [pc EXCEPT ![i] = "prepare"]
            /\ run' = [run EXCEPT ![i] = [BlankRun EXCEPT !.fullPage = fullPage]]
            /\ step' = Turn(i, "call")
            /\ UNCHANGED <<geomVars, pageVars>>
CaptureScreenshot(i) ==
    /\ pc[i] = "idle"
    /\ IF GuardRejects(isCapturing)
       THEN /\ step' = [Turn(i, "call") EXCEPT
                          !.sent = [kind |-> "error", error |-> ErrInProgress]]
            /\ UNCHANGED <<isCapturing, pc, run, geomVars, pageVars>>
       ELSE \E fullPage \in BOOLEAN :
            /\ isCapturing' = TRUE
            /\ pc' = [pc EXCEPT ![i] = "prepare"]
            /\ run' = [run EXCEPT ![i] = [BlankRun EXCEPT !.fullPage = fullPage]]
            /\ step' = Turn(i, "call")
            /\ UNCHANGED <<geomVars, pageVars>>

----------------------------------------------------------------------------
(* captureFullPage after the loop, and processImages / processSingleImage  *)

\* images.sort((a, b) => a.y !== b.y ? a.y - b.y : a.x - b.x)
TileBeforeByColumn(a, b) == a.x < b.x \/ (a.x = b.x /\ a.y < b.y)
TileBefore(a, b) == a.y < b.y \/ (a.y = b.y /\ a.x < b.x)

RECURSIVE InsertTile(_, _)
InsertTile(t, s) ==
    IF s = <<>> THEN <<t>>
    ELSE IF TileBefore(t, Head(s)) THEN <<t>> \o s
    ELSE <<Head(s)>> \o InsertTile(t, Tail(s))

RECURSIVE SortTiles(_)
SortTiles(s) ==
    IF s = <<>> THEN <<>>
    ELSE InsertTile(s[Len(s)], SortTiles(SubSeq(s, 1, Len(s) - 1)))

\* if (images.length === 0) throw
NoImagesNever(images) == FALSE
NoImages(images) == Len(images) = 0

\* lines 221-251, then processImages up to the await of chrome.tabs.query in
\* createPDF or combineImages.  A tile count other than segmentsX * segmentsY
\* is only warned about.  options is not written during a run, so its
\* format field is drawn where the run first reads it.
AfterLoop(i, r, e) ==
    IF NoImages(r.images)
    THEN Throw(i, r, e, ErrNoImages)
    ELSE IF \E k \in 1..Len(r.images) : ~IsImageData(r.images[k].dataUrl)
    THEN Throw(i, r, e, "Invalid image data at index")
    ELSE \E f \in Formats :
            Suspend(i, Progressed([r EXCEPT !.images = SortTiles(@), !.format = f,
                                            !.captureSpeed = "", !.rateLimitDelay = 0],
                                  Num(85)),
                    "tabsQuery",
                    UpdateProgress(e, Num(85)))

\* processSingleImage: createSingleImagePDF up to chrome.tabs.query, or
\* saveSingleImage up to chrome.downloads.download
SingleCaptured(i, r, e) ==
    \E f \in Formats :
        IF f = "pdf"
        THEN Suspend(i, Progressed([r EXCEPT !.format = f], Num(85)),
                     "singleTabsQuery", UpdateProgress(e, Num(85)))
        ELSE Suspend(i, Progressed([r EXCEPT !.format = f, !.exported = r.screenshot,
                                             !.downloads = @ + 1],
                                   Num(85)),
                     "download", UpdateProgress(e, Num(85)))

----------------------------------------------------------------------------
(* The capture loop of captureFullPage                                     *)

\* the loop body up to the await of the scroll script (lines 129-161).  A
\* grid that is not finite is followed for MaxTiles cells.
IssueScroll(i, r, x, y, e) ==
    /\ r.totalSegments.kind = "num" \/ r.scrolls < MaxTiles
    /\ \E d \in ScrollDeviations :
          Suspend(i, [r EXCEPT !.x = x, !.y = y, !.scrolls = @ + 1,
                               !.deviation = d],
                  "scroll", e)

\* x++ and y++ of the two for loops
AdvanceLoopColumnMajor(i, r, e) ==
    IF JsLess(r.y + 1, r.segmentsY)
    THEN IssueScroll(i, r, r.x, r.y + 1, e)
    ELSE IF JsLess(r.x + 1, r.segmentsX) /\ JsLess(0, r.segmentsY)
    THEN IssueScroll(i, r, r.x + 1, 0, e)
    ELSE AfterLoop(i, r, e)
AdvanceLoop(i, r, e) ==
    IF JsLess(r.x + 1, r.segmentsX)
    THEN IssueScroll(i, r, r.x + 1, r.y, e)
    ELSE IF JsLess(r.y + 1, r.segmentsY) /\ JsLess(0, r.segmentsX)
    THEN IssueScroll(i, r, 0, r.y + 1, e)
    ELSE AfterLoop(i, r, e)

\* catch (error) { console.error; updateStatus; throw error; } (lines 213-217)
OnTileErrorSkipsCell(i, r, e, message) == AdvanceLoop(i, r, e)
OnTileError(i, r, e, message) == Throw(i, r, e, message)

\* if (segmentIndex < totalSegments) await the pacing timer
NeedsPacing(segmentIndex, totalSegments) == JsLess(segmentIndex, totalSegments)

\* lines 177-211: validation, duplicate check, push, progress, pacing
TileCaptured(i, r, e) ==
    IF ~IsImageData(r.screenshot)
    THEN OnTileError(i, r, [e EXCEPT !.tileError = ErrInvalidTile], ErrInvalidTile)
    ELSE IF \E k \in 1..Len(r.images) : r.images[k].x = r.x /\ r.images[k].y = r.y
    THEN AdvanceLoop(i, [r EXCEPT !.screenshot = ""], e)
    ELSE LET progress == TileProgress(r.segmentIndex + 1, r.totalSegments)
             pushed == Progressed([r EXCEPT
                 !.images = Append(@, Tile(CellGeometry(r.pageInfo, r.x, r.y), r.screenshot)),
                 !.segmentIndex = @ + 1,
                 !.screenshot = ""], progress)
             told == UpdateProgress(e, progress)
         IN  IF NeedsPacing(pushed.segmentIndex, pushed.totalSegments)
             THEN Suspend(i, pushed, "pace", [told EXCEPT !.paced = pushed.rateLimitDelay])
             ELSE AdvanceLoop(i, pushed, told)

----------------------------------------------------------------------------
(* captureScreenshotWithRetry                                              *)

\* let screenshot = null; let retryCount = 0; and the first primitive call
EnterRetry(r) ==
    [r EXCEPT !.screenshot = "", !.retryCount = 0, !.primCalls = 1, !.log = <<>>,
              !.waits = <<>>, !.notes = <<>>]

\* while (!screenshot && retryCount < maxRetries)
LoopContinuesWhileEmpty(screenshot, retryCount) == screenshot = ""
LoopContinues(screenshot, retryCount) == screenshot = "" /\ retryCount < MaxRetries

\* an error leaves captureScreenshotWithRetry: to the catch of the capture
\* loop, or through captureVisibleArea to the caller
CaptureFailed(i, r, e, message) ==
    IF r.fullPage
    THEN OnTileError(i, r, [e EXCEPT !.tileError = message], message)
    ELSE Throw(i, r, e, message)

\* captureScreenshotWithRetry returns r.screenshot
CapturedAsTile(i, r, e) == TileCaptured(i, r, e)
Captured(i, r, e) ==
    IF r.fullPage THEN TileCaptured(i, r, e) ELSE SingleCaptured(i, r, e)

\* the locals of the call go with it; what it returned stays with the caller
LeaveRetry(r) == [r EXCEPT !.retryCount = 0, !.primCalls = 0, !.log = <<>>,
                          !.waits = <<>>, !.notes = <<>>]

\* if (!screenshot) after the loop
NothingCapturedNever(screenshot) == FALSE
NothingCaptured(screenshot) == screenshot = ""

\* the loop test, and what follows it (lines 727-750)
RetryLoop(i, r, e) ==
    IF LoopContinues(r.screenshot, r.retryCount)
    THEN /\ r.primCalls < MaxPrimCalls
         /\ Suspend(i, [r EXCEPT !.primCalls = @ + 1], "capture", e)
    ELSE IF NothingCaptured(r.screenshot)
    THEN CaptureFailed(i, LeaveRetry(r), [e EXCEPT !.call = CallOf(r)], ErrExhausted)
    ELSE Captured(i, LeaveRetry(r), [e EXCEPT !.call = CallOf(r)])

\* the promise of chrome.tabs.captureVisibleTab rejects
Rejects(outcome) == outcome \in {"rateLimited", "error"}

\* error.message.includes('MAX_CAPTURE_VISIBLE_TAB_CALLS_PER_SECOND')
EveryErrorIsRateLimit(outcome) == TRUE
IsRateLimit(outcome) == outcome = "rateLimited"

\* const waitTime = Math.min(1000 * retryCount, 3000)
WaitTimeFixed(retryCount) == 1000
WaitTimeBeforeCount(retryCount) == Min2(1000 * (retryCount - 1), 3000)
WaitTime(retryCount) == Min2(1000 * retryCount, 3000)

\* chrome.tabs.captureVisibleTab settles (lines 729-743): its value is
\* assigned and the loop test follows, or the catch block runs up to its
\* await or its throw
CaptureSettled(i, outcome) ==
    /\ pc[i] = "capture"
    /\ LET r == [run[i] EXCEPT !.log = Append(@, outcome)]
           e == Turn(i, outcome)
       IN  IF Rejects(outcome)
           THEN LET c == [r EXCEPT !.retryCount = @ + 1]
                IN  IF IsRateLimit(outcome)
                    THEN Suspend(i, [c EXCEPT !.waits = Append(@, WaitTime(c.retryCount))],
                                 "backoff", e)
                    ELSE CaptureFailed(i, LeaveRetry(c), [e EXCEPT !.call = CallOf(c)],
                                       ErrPrimitive)
           ELSE RetryLoop(i, [r EXCEPT !.screenshot = outcome], e)

\* the backoff timer fires: updateStatus, then the loop test (lines 738-739)
BackoffTimer(i) ==
    /\ pc[i] = "backoff"
    /\ RetryLoop(i, [run[i] EXCEPT !.notes = Append(@, run[i].retryCount)],
                 Turn(i, "timer"))

----------------------------------------------------------------------------
(* The turns of a run, one per awaited promise                             *)

\* preparePage: the script settles; a rejection is caught and logged (lines
\* 41-53).  Then captureFullPage up to the dimension query, or
\* captureVisibleArea up to the first primitive call.
ErrPrepare == "executeScript failed in preparePage"

\* catch (error) { console.warn(...) } of preparePage: does the rejection
\* leave preparePage?
PrepareRethrows(ok) == ~ok
PrepareThrows(ok) == FALSE

PrepareSettled(i, ok) ==
    /\ pc[i] = "prepare"
    /\ LET e == Turn(i, IF ok THEN "prepared" ELSE "prepareFailed")
       IN  IF PrepareThrows(ok)
           THEN Throw(i, run[i], e, ErrPrepare)
           ELSE IF run[i].fullPage
           THEN Suspend(i, run[i], "dimensions", e)
           ELSE Suspend(i, EnterRetry(run[i]), "capture", e)

\* options.captureSpeed: the three named speeds, and a value that is none
\* of them
CaptureSpeeds == {"slow", "medium", "fast", "unset"}

\* The speeds the runs on a page of metrics m are given: every speed on a
\* page one viewport wide in a square window, medium on the others.
CaptureSpeedsOn(m) ==
    IF m.scrollWidth = m.viewportWidth /\ m.viewportHeight = m.viewportWidth
    THEN CaptureSpeeds
    ELSE {"medium"}

\* let RATE_LIMIT_DELAY = 500; switch (options.captureSpeed) { ... }
RateLimitDelayDefault(captureSpeed) == 500
RateLimitDelay(captureSpeed) ==
    CASE captureSpeed = "slow" -> 1000
      [] captureSpeed = "medium" -> 500
      [] captureSpeed = "fast" -> 200
      [] OTHER -> 500

\* the dimension query settles (lines 63-131): it rejects, answers nothing,
\* or answers page metrics, from which the grid is computed and the loop
\* entered
DimensionsSettled(i, outcome) ==
    /\ pc[i] = "dimensions"
    /\ CASE outcome = "throws" ->
              Throw(i, run[i], Turn(i, outcome), ErrDimensionsAccess)
         [] outcome = "empty" ->
              Throw(i, run[i], Turn(i, outcome), ErrDimensionsEmpty)
         [] OTHER ->
              \E m \in MetricsReported : \E speed \in CaptureSpeedsOn(m) :
                LET g == PlanGrid(m)
                    r == [run[i] EXCEPT !.pageInfo = m,
                                        !.captureSpeed = speed,
                                        !.rateLimitDelay = RateLimitDelay(speed),
                                        !.segmentsX = g.segmentsX,
                                        !.segmentsY = g.segmentsY,
                                        !.totalSegments = g.totalSegments]
                    e == Turn(i, "metrics")
                IN  IF JsLess(0, r.segmentsY) /\ JsLess(0, r.segmentsX)
                    THEN IssueScroll(i, r, 0, 0, e)
                    ELSE AfterLoop(i, r, e)

\* Math.abs(window.scrollX - scrollX) < 5 && Math.abs(window.scrollY - scrollY) < 5
WithinTolerance(deviation) == deviation < ScrollTolerance

\* checkScroll finds the page too far from the target and sets the 50 ms
\* timer for its next call (lines 148-154), which finds the script as this
\* call found it; the script has no other exit
CheckScroll(i) ==
    /\ pc[i] = "scroll"
    /\ ~WithinTolerance(run[i].deviation)
    /\ Suspend(i, run[i], "scroll", Turn(i, "poll"))

\* the scroll script settles: checkScroll found the page within tolerance
\* and resolved, or executeScript rejected, which is caught and logged (lines
\* 140-168).  Then the 500 ms timer.
ScrollSettledAborts(i, ok) ==
    /\ pc[i] = "scroll"
    /\ ok => WithinTolerance(run[i].deviation)
    /\ IF ok
       THEN Suspend(i, [run[i] EXCEPT !.deviation = 0], "stable500", Turn(i, "scrolled"))
       ELSE Throw(i, run[i], Turn(i, "scrollFailed"), ErrScript)
ScrollSettled(i, ok) ==
    /\ pc[i] = "scroll"
    /\ ok => WithinTolerance(run[i].deviation)
    /\ Suspend(i, [run[i] EXCEPT !.deviation = 0, !.scrollFailed = ~ok], "stable500",
               Turn(i, IF ok THEN "scrolled" ELSE "scrollFailed"))

\* the 500 ms timer fires; then the 200 ms timer (lines 168-172)
StableTimer500ThenCapture(i) ==
    /\ pc[i] = "stable500"
    /\ Suspend(i, EnterRetry(run[i]), "capture", Turn(i, "timer"))
StableTimer500(i) ==
    /\ pc[i] = "stable500"
    /\ Suspend(i, run[i], "stable200", Turn(i, "timer"))

\* the 200 ms timer fires; captureScreenshotWithRetry up to the primitive call
StableTimer200(i) ==
    /\ pc[i] = "stable200"
    /\ Suspend(i, [EnterRetry(run[i]) EXCEPT !.scrollFailed = FALSE], "capture",
               Turn(i, "timer"))

\* the pacing timer fires (lines 209-211)
PaceTimer(i) ==
    /\ pc[i] = "pace"
    /\ AdvanceLoop(i, run[i], Turn(i, "timer"))

\* chrome.tabs.query of createPDF / combineImages settles; then the in-page
\* script is started (lines 283-286, 559-561)
TabsQuerySettledExports(i, outcome) ==
    /\ pc[i] = "tabsQuery"
    /\ Suspend(i, [run[i] EXCEPT !.downloads = @ + 1], "download", Turn(i, "tab"))
TabsQuerySettled(i, outcome) ==
    /\ pc[i] = "tabsQuery"
    /\ CASE outcome = "throws" -> Throw(i, run[i], Turn(i, outcome), ErrTabsQuery)
         [] outcome = "noTab" -> Throw(i, run[i], Turn(i, outcome), ErrNoTab)
         [] OTHER -> Suspend(i, run[i],
                             IF run[i].format = "pdf" THEN "pdfProcess" ELSE "combine",
                             Turn(i, "tab"))

\* the in-page script of combineImages settles.  It answers an error object
\* when the page is too large or a tile fails to decode in time, and the
\* data URL of the canvas otherwise (lines 672-695).
DownloadsDespiteError(outcome) == outcome \in {"ok", "error"}
ResultIsComposite(outcome) == outcome = "ok"

\* img.onerror: reject(new Error(`Failed to load image ${index + 1}`)), and
\* the 10 s timer: reject(new Error(`Timeout loading image ${index + 1}`)),
\* for the tile at place k of images (index = k - 1)
ErrLoad == "Failed to load image"
ErrLoadTimeout == "Timeout loading image"
DecodeErrorByIndex(message, k) == [message |-> message, index |-> k - 1]
DecodeError(message, k) == [message |-> message, index |-> k]

\* The script answers an error object (lines 587-667): the size error,
\* thrown before any tile is loaded, or else the rejection that Promise.all
\* passes on, which is the first among the tiles' promises: of a tile k that
\* failed to load, or of one that had not loaded after 10 s.
ScriptFailed(i, e) ==
    IF PageTooLarge(run[i].images)
    THEN Throw(i, run[i],
               [e EXCEPT !.scriptError = [message |-> ErrPageTooLarge, index |-> 0]],
               ErrCombine)
    ELSE \E k \in 1..Len(run[i].images), m \in {ErrLoad, ErrLoadTimeout} :
            Throw(i, run[i],
                  [e EXCEPT !.failedTile = k, !.scriptError = DecodeError(m, k)],
                  ErrCombine)

CombineSettled(i, outcome) ==
    /\ pc[i] = "combine"
    /\ outcome = "ok" => ~PageTooLarge(run[i].images)
    /\ LET e == Turn(i, outcome)
       IN  CASE outcome = "throws" -> Throw(i, run[i], e, ErrScript)
             [] outcome = "noResult" -> Throw(i, run[i], e, ErrNoResult)
             [] ResultIsComposite(outcome) ->
                  Suspend(i, [run[i] EXCEPT !.composite = IF outcome = "ok" THEN ImageData ELSE "",
                                            !.exported = IF outcome = "ok" THEN ImageData ELSE "",
                                            !.downloads = @ + 1],
                          "download", e)
             [] OTHER -> ScriptFailed(i, e)

\* chrome.downloads.download settles (lines 691-700, 706-715)
DownloadSettled(i, ok) ==
    /\ pc[i] = "download"
    /\ IF ok
       THEN Return(i, Progressed(run[i], Num(100)),
                   UpdateProgress(Turn(i, "downloaded"), Num(100)),
                   <<"screenshot", run[i].format>>)
       ELSE Throw(i, run[i], Turn(i, "downloadFailed"), ErrDownload)

\* the in-page script of createPDF settles (lines 399-421); then
\* generateAndDownloadPDF up to chrome.tabs.query
PdfProcessSettled(i, outcome) ==
    /\ pc[i] = "pdfProcess"
    /\ outcome = "ok" => ~PageTooLarge(run[i].images)
    /\ LET e == Turn(i, outcome)
       IN  CASE outcome = "throws" -> Throw(i, run[i], e, ErrScript)
             [] outcome = "noResult" -> Throw(i, run[i], e, ErrPdfNoResult)
             [] outcome = "error" -> Throw(i, run[i], e, ErrPdfProcess)
             [] OTHER -> Suspend(i, [run[i] EXCEPT !.composite = ImageData,
                                                   !.exported = ImageData],
                                 "pdfTabsQuery", e)

\* chrome.tabs.query of generateAndDownloadPDF settles, inside its try
\* (lines 467-471)
PdfTabsQuerySettled(i, outcome) ==
    /\ pc[i] = "pdfTabsQuery"
    /\ IF outcome = "tab"
       THEN Suspend(i, run[i], "pdfOpen", Turn(i, outcome))
       ELSE Throw(i, run[i], Turn(i, outcome), ErrPdfTab)

\* the script that opens the wrapper settles; what it answers is not read
\* (lines 471-550, 423-425, 460-462)
PdfOpenSettled(i, outcome) ==
    /\ pc[i] = "pdfOpen"
    /\ IF outcome = "throws"
       THEN Throw(i, run[i], Turn(i, outcome), ErrPdfTab)
       ELSE Return(i, Progressed(run[i], Num(100)),
                   UpdateProgress(Turn(i, outcome), Num(100)), <<"PDF">>)

\* chrome.tabs.query of createSingleImagePDF settles (lines 430-432)
SingleTabsQuerySettled(i, outcome) ==
    /\ pc[i] = "singleTabsQuery"
    /\ CASE outcome = "throws" -> Throw(i, run[i], Turn(i, outcome), ErrTabsQuery)
         [] outcome = "noTab" -> Throw(i, run[i], Turn(i, outcome), ErrNoTab)
         [] OTHER -> Suspend(i, run[i], "singlePdf", Turn(i, "tab"))

\* the in-page script of createSingleImagePDF settles (lines 451-458); it
\* answers imageDataUrl: image, which goes to generateAndDownloadPDF
SinglePdfSettled(i, outcome) ==
    /\ pc[i] = "singlePdf"
    /\ CASE outcome = "throws" -> Throw(i, run[i], Turn(i, outcome), ErrScript)
         [] outcome = "noResult" -> Throw(i, run[i], Turn(i, outcome), ErrSinglePdf)
         [] OTHER -> Suspend(i, [run[i] EXCEPT !.exported = run[i].screenshot],
                             "pdfTabsQuery", Turn(i, "ok"))

Next ==
    \/ \E i \in Invocations : CaptureScreenshot(i)
    \/ \E i \in Invocations, ok \in BOOLEAN : PrepareSettled(i, ok)
    \/ \E i \in Invocations, o \in {"throws", "empty", "result"} : DimensionsSettled(i, o)
    \/ \E i \in Invocations : CheckScroll(i)
    \/ \E i \in Invocations, ok \in BOOLEAN : ScrollSettled(i, ok)
    \/ \E i \in Invocations : StableTimer500(i)
    \/ \E i \in Invocations : StableTimer200(i)
    \/ \E i \in Invocations, o \in CaptureOutcomes : CaptureSettled(i, o)
    \/ \E i \in Invocations : BackoffTimer(i)
    \/ \E i \in Invocations : PaceTimer(i)
    \/ \E i \in Invocations, o \in {"throws", "noTab", "tab"} : TabsQuerySettled(i, o)
    \/ \E i \in Invocations, o \in {"throws", "noResult", "error", "ok"} : CombineSettled(i, o)
    \/ \E i \in Invocations, ok \in BOOLEAN : DownloadSettled(i, ok)
    \/ \E i \in Invocations, o \in {"throws", "noResult", "error", "ok"} : PdfProcessSettled(i, o)
    \/ \E i \in Invocations, o \in {"throws", "noTab", "tab"} : PdfTabsQuerySettled(i, o)
    \/ \E i \in Invocations, o \in {"throws", "failed", "ok"} : PdfOpenSettled(i, o)
    \/ \E i \in Invocations, o \in {"throws", "noTab", "tab"} : SingleTabsQuerySettled(i, o)
    \/ \E i \in Invocations, o \in {"throws", "noResult", "ok"} : SinglePdfSettled(i, o)

Spec == Init /\ [][Next]_vars

\* What the platform schedules for invocation i without fail: a timer that
\* was set fires, and an awaited promise of a chrome.* call settles, with
\* some outcome.  The scroll script settles by itself only through
\* checkScroll; its rejection, like a new message to the listener, is an
\* event from outside that need not come.
Scheduled(i) ==
    \/ \E ok \in BOOLEAN : PrepareSettled(i, ok)
    \/ \E o \in {"throws", "empty", "result"} : DimensionsSettled(i, o)
    \/ CheckScroll(i)
    \/ ScrollSettled(i, TRUE)
    \/ StableTimer500(i)
    \/ StableTimer200(i)
    \/ \E o \in CaptureOutcomes : CaptureSettled(i, o)
    \/ BackoffTimer(i)
    \/ PaceTimer(i)
    \/ \E o \in {"throws", "noTab", "tab"} : TabsQuerySettled(i, o)
    \/ \E o \in {"throws", "noResult", "error", "ok"} : CombineSettled(i, o)
    \/ \E ok \in BOOLEAN : DownloadSettled(i, ok)
    \/ \E o \in {"throws", "noResult", "error", "ok"} : PdfProcessSettled(i, o)
    \/ \E o \in {"throws", "noTab", "tab"} : PdfTabsQuerySettled(i, o)
    \/ \E o \in {"throws", "failed", "ok"} : PdfOpenSettled(i, o)
    \/ \E o \in {"throws", "noTab", "tab"} : SingleTabsQuerySettled(i, o)
    \/ \E o \in {"throws", "noResult", "ok"} : SinglePdfSettled(i, o)

Fairness == \A i \in Invocations : WF_vars(Scheduled(i))

FairSpec == Init /\ [][Next]_vars /\ Fairness

----------------------------------------------------------------------------
(* GeomSpec: the planner and the canvas arithmetic on bounded inputs.      *)

SmallMetrics ==
    [scrollWidth : 1..MaxDim, scrollHeight : 1..MaxDim,
     viewportWidth : 1..MaxViewDim, viewportHeight : 1..MaxViewDim]

\* Page sizes in pixels, among them the 2500-on-1000 axis of the design notes.
PixelMetrics ==
    [scrollWidth : {800, 2500}, scrollHeight : {600, 2500, 3000},
     viewportWidth : {1000}, viewportHeight : {1000}]

GeomInit ==
    /\ metrics \in SmallMetrics \cup PixelMetrics
    /\ plan = <<>>
    /\ canvas = <<>>
    /\ gpc = "input"
    /\ isCapturing = FALSE
    /\ pc = [i \in Invocations |-> "idle"]
    /\ run = [i \in Invocations |-> BlankRun]
    /\ step = NoStep
    /\ page = NoPage

\* captureFullPage lines 96-137: the grid and every cell's geometry
Plan ==
    /\ gpc = "input"
    /\ plan' = PlanGrid(metrics)
    /\ gpc' = "planned"
    /\ UNCHANGED <<metrics, canvas, runVars, pageVars>>

\* combineImages lines 587-630 on the tiles of the planned cells
Compose ==
    /\ gpc = "planned"
    /\ canvas' = Composite([k \in 1..Len(plan.cells) |-> Tile(plan.cells[k], "data:image/")])
    /\ gpc' = "composited"
    /\ UNCHANGED <<metrics, plan, runVars, pageVars>>

GeomNext == Plan \/ Compose

GeomSpec == GeomInit /\ [][GeomNext]_vars

----------------------------------------------------------------------------
(* ScaleSpec: the same two steps on pages whose composite reaches the      *)
(* canvas limit: tiles of 20000, 32767 and 327671 pixels a side, in grids  *)
(* of up to 17 columns and rows.                                            *)

LargeExtents == {20000, 60000, 327670, 327671}
LargeViewports == {20000, 32767, 327671}

LargeMetrics ==
    [scrollWidth : LargeExtents, scrollHeight : LargeExtents,
     viewportWidth : LargeViewports, viewportHeight : LargeViewports]

ScaleInit ==
    /\ metrics \in LargeMetrics
    /\ plan = <<>>
    /\ canvas = <<>>
    /\ gpc = "input"
    /\ isCapturing = FALSE
    /\ pc = [i \in Invocations |-> "idle"]
    /\ run = [i \in Invocations |-> BlankRun]
    /\ step = NoStep
    /\ page = NoPage

ScaleSpec == ScaleInit /\ [][GeomNext]_vars

----------------------------------------------------------------------------
(* SortSpec: the sort at the end of captureFullPage, applied to tiles      *)
(* collected in any order, two or more of one cell included.  plan.images  *)
(* is the array before images.sort, canvas.images the array returned.      *)

MaxSortLen == 3        \* most tiles in the array
MaxSortCoord == 1      \* largest grid column and row of a tile

SortInputs ==
    [dataUrl : {ImageData}, x : 0..MaxSortCoord, y : 0..MaxSortCoord,
     width : {1, 2}, height : {1}]

SortInit ==
    /\ plan \in {[images |-> s] : s \in UNION {[1..n -> SortInputs] : n \in 0..MaxSortLen}}
    /\ canvas = <<>>
    /\ gpc = "collected"
    /\ metrics = NoMetrics
    /\ isCapturing = FALSE
    /\ pc = [i \in Invocations |-> "idle"]
    /\ run = [i \in Invocations |-> BlankRun]
    /\ step = NoStep
    /\ page = NoPage

\* lines 244-251: images.sort(...); return images
SortImages ==
    /\ gpc = "collected"
    /\ canvas' = [images |-> SortTiles(plan.images)]
    /\ gpc' = "sorted"
    /\ UNCHANGED <<metrics, plan, runVars, pageVars>>

SortSpec == SortInit /\ [][SortImages]_vars

----------------------------------------------------------------------------
(* DecodeSpec: the in-page script of combineImages and createPDF from the  *)
(* creation of its image promises on.  plan.images is the script's         *)
(* argument images.  canvas.img is the state of each Image element,        *)
(* canvas.promise that of each element of imagePromises, canvas.draws the  *)
(* rectangles drawn on the canvas, in the order drawn, and canvas.result   *)
(* what the script returned: the encoded canvas, given as the rectangles   *)
(* it held when canvas.toDataURL read it, or an error.                     *)

MaxDecodeTiles == 3    \* most tiles of the composited page

\* a page one viewport wide and up to MaxDecodeTiles viewports high
DecodePages ==
    [scrollWidth : {1}, scrollHeight : 1..MaxDecodeTiles,
     viewportWidth : {1}, viewportHeight : {1}]

NoResult == [kind |-> "none", draws |-> <<>>, error |-> NoScriptError]
ErrDraw == "drawImage failed"

\* lines 582-650: the canvas is sized, and every tile's Image is given its
\* handlers, its timer and its src
DecodeStart(images) ==
    [width |-> Composite(images).width, height |-> Composite(images).height,
     scale |-> CanvasScale(images),
     img |-> [k \in 1..Len(images) |-> "loading"],
     promise |-> [k \in 1..Len(images) |-> "pending"],
     draws |-> <<>>,
     result |-> NoResult]

DecodeInit ==
    /\ metrics \in DecodePages
    /\ plan = [images |-> [k \in 1..Len(PlanGrid(metrics).cells) |->
                              Tile(PlanGrid(metrics).cells[k], ImageData)]]
    /\ canvas = DecodeStart(plan.images)
    /\ gpc = "decoding"
    /\ isCapturing = FALSE
    /\ pc = [i \in Invocations |-> "idle"]
    /\ run = [i \in Invocations |-> BlankRun]
    /\ step = NoStep
    /\ page = NoPage

\* await Promise.all(imagePromises) resumes
AnyResolved(promise) == \E k \in DOMAIN promise : promise[k] = "resolved"
AllResolved(promise) == \A k \in DOMAIN promise : promise[k] = "resolved"

\* The turn in which promise k was settled, to the end of its microtasks:
\* Promise.all resolves and the canvas is encoded and returned (lines
\* 653-662), or it rejects with the first rejection and the catch block
\* returns the error (lines 663-667); a script that has returned, or still
\* waits, is left as it is.
ScriptAfter(c, k, error) ==
    IF gpc # "decoding" THEN c
    ELSE IF c.promise[k] = "rejected"
    THEN [c EXCEPT !.result = [kind |-> "error", draws |-> <<>>, error |-> error]]
    ELSE IF AllResolved(c.promise)
    THEN [c EXCEPT !.result = [kind |-> "image", draws |-> c.draws, error |-> NoScriptError]]
    ELSE c

Settle(state, to) == IF state = "pending" THEN to ELSE state

\* img.onload of tile k (lines 621-636): drawImage, then resolve, or reject
\* with what drawImage threw
TileLoaded(k, drawn) ==
    /\ k \in DOMAIN plan.images
    /\ canvas.img[k] = "loading"
    /\ LET c == [canvas EXCEPT
                   !.img[k] = "loaded",
                   !.draws = IF drawn
                             THEN Append(@, DrawRect(plan.images[k], canvas.scale))
                             ELSE @,
                   !.promise[k] = Settle(@, IF drawn THEN "resolved" ELSE "rejected")]
       IN  /\ canvas' = IF canvas.promise[k] = "pending"
                        THEN ScriptAfter(c, k, [message |-> ErrDraw, index |-> 0])
                        ELSE c
           /\ gpc' = IF canvas'.result = NoResult THEN "decoding" ELSE "returned"
    /\ UNCHANGED <<metrics, plan, runVars, pageVars>>

\* img.onerror of tile k (lines 638-641)
TileLoadFailed(k) ==
    /\ k \in DOMAIN plan.images
    /\ canvas.img[k] = "loading"
    /\ LET c == [canvas EXCEPT !.img[k] = "broken",
                               !.promise[k] = Settle(@, "rejected")]
       IN  /\ canvas' = IF canvas.promise[k] = "pending"
                        THEN ScriptAfter(c, k, DecodeError(ErrLoad, k))
                        ELSE c
           /\ gpc' = IF canvas'.result = NoResult THEN "decoding" ELSE "returned"
    /\ UNCHANGED <<metrics, plan, runVars, pageVars>>

\* the 10 s timer of tile k fires before its promise is settled (lines
\* 644-646); the image goes on loading
TileLoadTimeout(k) ==
    /\ k \in DOMAIN plan.images
    /\ canvas.promise[k] = "pending"
    /\ canvas' = ScriptAfter([canvas EXCEPT !.promise[k] = "rejected"], k,
                             DecodeError(ErrLoadTimeout, k))
    /\ gpc' = IF canvas'.result = NoResult THEN "decoding" ELSE "returned"
    /\ UNCHANGED <<metrics, plan, runVars, pageVars>>

DecodeNext ==
    \/ \E k \in 1..MaxDecodeTiles, drawn \in BOOLEAN : TileLoaded(k, drawn)
    \/ \E k \in 1..MaxDecodeTiles : TileLoadFailed(k)
    \/ \E k \in 1..MaxDecodeTiles : TileLoadTimeout(k)

DecodeSpec == DecodeInit /\ [][DecodeNext]_vars

----------------------------------------------------------------------------
(* Claims about the grid geometry (GeomSpec) *)

\* The least q with q * b >= a, for a >= 0 and b > 0.
CeilDiv(a, b) == CHOOSE q \in 0..a : q * b >= a /\ (q = 0 \/ (q - 1) * b < a)

Planned == gpc \in {"planned", "composited"}

\* C5: for positive page and viewport extents the planned grid has
\* columns = max(1, ceil(scrollWidth / viewportWidth)),
\* rows = max(1, ceil(scrollHeight / viewportHeight)) and
\* totalSegments = columns * rows cells; the floor-plus-remainder expression
\* of the code equals the ceiling.
C5_GridIsCeiling ==
    Planned =>
        LET columns == Max2(1, CeilDiv(metrics.scrollWidth, metrics.viewportWidth))
            rows == Max2(1, CeilDiv(metrics.scrollHeight, metrics.viewportHeight))
        IN  /\ plan.segmentsX = Num(columns)
            /\ plan.segmentsY = Num(rows)
            /\ plan.totalSegments = Num(columns * rows)
            /\ Len(plan.cells) = columns * rows

\* C5 witness: a planned grid with an extent that is no multiple of the
\* viewport on one axis and an exact multiple on the other.
C5_Witness ==
    /\ Planned
    /\ metrics.scrollWidth % metrics.viewportWidth > 0
    /\ metrics.scrollWidth > metrics.viewportWidth
    /\ metrics.scrollHeight % metrics.viewportHeight = 0
    /\ metrics.scrollHeight > metrics.viewportHeight


\* The cells of column x of the plan.
ColumnCells(x) == {k \in 1..Len(plan.cells) : plan.cells[k].x = x}

\* C6: for every cell (col,row) the offset is min(col * viewport,
\* max(0, scroll - viewport)) and the size min(viewport, scroll - offset) on
\* both axes, hence 0 <= offset and offset + size <= scroll extent; 2500 on
\* 1000 gives offsets 0, 1000, 1500 and sizes 1000, 1000, 1000; an extent
\* that is at most the viewport gives one cell at offset 0 of the extent's size.
C6_ClampedOffsets ==
    Planned =>
        /\ \A k \in 1..Len(plan.cells) :
            LET c == plan.cells[k]
                limitX == IF metrics.scrollWidth > metrics.viewportWidth
                          THEN metrics.scrollWidth - metrics.viewportWidth ELSE 0
                limitY == IF metrics.scrollHeight > metrics.viewportHeight
                          THEN metrics.scrollHeight - metrics.viewportHeight ELSE 0
            IN  /\ c.scrollX = (IF c.x * metrics.viewportWidth <= limitX
                                THEN c.x * metrics.viewportWidth ELSE limitX)
                /\ c.scrollY = (IF c.y * metrics.viewportHeight <= limitY
                                THEN c.y * metrics.viewportHeight ELSE limitY)
                /\ c.width = (IF metrics.viewportWidth <= metrics.scrollWidth - c.scrollX
                              THEN metrics.viewportWidth
                              ELSE metrics.scrollWidth - c.scrollX)
                /\ c.height = (IF metrics.viewportHeight <= metrics.scrollHeight - c.scrollY
                               THEN metrics.viewportHeight
                               ELSE metrics.scrollHeight - c.scrollY)
                /\ 0 <= c.scrollX /\ c.scrollX + c.width <= metrics.scrollWidth
                /\ 0 <= c.scrollY /\ c.scrollY + c.height <= metrics.scrollHeight
        /\ (metrics.scrollWidth = 2500 /\ metrics.viewportWidth = 1000) =>
            /\ plan.segmentsX = Num(3)
            /\ \A k \in ColumnCells(0) : plan.cells[k].scrollX = 0
            /\ \A k \in ColumnCells(1) : plan.cells[k].scrollX = 1000
            /\ \A k \in ColumnCells(2) : plan.cells[k].scrollX = 1500
            /\ \A k \in 1..Len(plan.cells) : plan.cells[k].width = 1000
        /\ metrics.scrollWidth <= metrics.viewportWidth =>
            /\ plan.segmentsX = Num(1)
            /\ \A k \in 1..Len(plan.cells) :
                 plan.cells[k].scrollX = 0 /\ plan.cells[k].width = metrics.scrollWidth
        /\ metrics.scrollHeight <= metrics.viewportHeight =>
            /\ plan.segmentsY = Num(1)
            /\ \A k \in 1..Len(plan.cells) :
                 plan.cells[k].scrollY = 0 /\ plan.cells[k].height = metrics.scrollHeight

\* C6 witness: the planned 2500-on-1000 axis, whose last column is clamped.
C6_Witness ==
    /\ Planned
    /\ metrics.scrollWidth = 2500 /\ metrics.viewportWidth = 1000
    /\ \E k \in 1..Len(plan.cells) : plan.cells[k].x = 2 /\ plan.cells[k].scrollX = 1500

\* The planned cells whose rectangle holds the page point (px, py).
CellsHolding(px, py) ==
    {k \in 1..Len(plan.cells) :
        LET c == plan.cells[k]
        IN  /\ c.scrollX <= px /\ px < c.scrollX + c.width
            /\ c.scrollY <= py /\ py < c.scrollY + c.height}

\* C7: the planned rectangles tile the page exactly: every page point lies
\* in exactly one of them (no gap and no overlap).
C7_ExactTiling ==
    Planned =>
        \A px \in 0..(metrics.scrollWidth - 1), py \in 0..(metrics.scrollHeight - 1) :
            Cardinality(CellsHolding(px, py)) = 1

\* C8: no blank margin and no double-counted overlap in the composite: the
\* last column's (row's) recorded size is the extent left over by the
\* columns (rows) before it, every tile is drawn where it was captured, and
\* the unscaled composite is scrollWidth x scrollHeight.
C8_CompositeMatchesPage ==
    gpc = "composited" =>
        /\ canvas.totalWidth = metrics.scrollWidth
        /\ canvas.totalHeight = metrics.scrollHeight
        /\ \A k \in 1..Len(plan.cells) :
            LET c == plan.cells[k]
            IN  /\ canvas.draws[k].dx = c.scrollX
                /\ canvas.draws[k].dy = c.scrollY
                /\ (c.x = plan.segmentsX.n - 1) =>
                      c.width = metrics.scrollWidth - c.x * metrics.viewportWidth
                /\ (c.y = plan.segmentsY.n - 1) =>
                      c.height = metrics.scrollHeight - c.y * metrics.viewportHeight

----------------------------------------------------------------------------
(* Claims about the runs (Spec) *)

Active(i) == pc[i] # "idle"
Rejected == step.sent.kind = "error" /\ step.sent.error = ErrInProgress
RunEnded == step.sent.kind = "success"
            \/ (step.sent.kind = "error" /\ step.sent.error # ErrInProgress)
InCaptureLoop(i) ==
    pc[i] \in {"scroll", "stable500", "stable200", "capture", "backoff", "pace"}

\* C1: captureScreenshot is single-flight.  A call made while another
\* invocation holds the guard fails at once with 'Screenshot capture already
\* in progress' and awaits nothing (no preparation, scroll, capture or
\* export); a call made while none holds it proceeds; so at most one
\* invocation is ever running.
C1_SingleFlight ==
    /\ Cardinality({i \in Invocations : Active(i)}) <= 1
    /\ step.got = "call" =>
         IF \E j \in Invocations \ {step.inv} : Active(j)
         THEN /\ Rejected
              /\ ~Active(step.inv)
              /\ run[step.inv] = BlankRun
              /\ isCapturing
         ELSE /\ step.sent = NoResponse
              /\ pc[step.inv] = "prepare"
    /\ Rejected => step.got = "call"

\* C1 witness: a call is rejected while the other invocation is suspended
\* in the capture of the second tile of its run.
C1_Witness ==
    /\ Rejected
    /\ \E j \in Invocations \ {step.inv} :
          pc[j] = "capture" /\ Len(run[j].images) = 1

\* C2: when a run that acquired the guard ends, by a result or by an error
\* from any phase, isCapturing is false afterwards and the invocation is
\* idle, so the next call is accepted; the flag is never left set without a
\* run.
C2_GuardReleased ==
    /\ RunEnded => ~isCapturing /\ ~Active(step.inv) /\ ~GuardRejects(isCapturing)
    /\ isCapturing => \E i \in Invocations : Active(i)

\* C2 witness: a run has just ended by an error of the compositing script.
C2_Witness ==
    /\ step.sent.kind = "error" /\ step.sent.error = ErrCombine
    /\ Len(step.ended.images) > 1
    /\ ~isCapturing

\* C3: a failure of the capture of a tile stops the loop at once: the turn
\* in which it fails ends the run with that error sent to the caller, no
\* cell after the failing one was scrolled to or captured, no composite was
\* built and nothing exported, and the guard is released.
C3_TileFailureAborts ==
    step.tileError # "" =>
        /\ step.sent = [kind |-> "error", error |-> step.tileError]
        /\ ~Active(step.inv)
        /\ ~isCapturing
        /\ step.ended.scrolls = Len(step.ended.images) + 1
        /\ step.ended.segmentIndex = Len(step.ended.images)
        /\ step.ended.format = ""
        /\ step.ended.composite = ""
        /\ step.ended.downloads = 0

\* C3 witness: the capture of cell (1,2) of a 2x3 grid has just failed.
C3_Witness ==
    /\ step.tileError # ""
    /\ step.ended.segmentsX = Num(2) /\ step.ended.segmentsY = Num(3)
    /\ step.ended.x = 1 /\ step.ended.y = 2
    /\ Len(step.ended.images) = 5

\* Every cell of the grid of run r has a tile among its images.
AllCellsCaptured(r) ==
    /\ r.totalSegments = Num(Len(r.images))
    /\ \A x \in 0..(r.segmentsX.n - 1), y \in 0..(r.segmentsY.n - 1) :
          \E k \in 1..Len(r.images) : r.images[k].x = x /\ r.images[k].y = y

\* What C4 asks of the locals r of a run, running or just ended.
NoPartialArtifact(r) ==
    /\ r.downloads <= 1
    /\ (r.downloads = 1 /\ r.fullPage) =>
          /\ AllCellsCaptured(r)
          /\ IsImageData(r.composite)
    /\ (r.downloads = 1 /\ ~r.fullPage) => r.screenshot # ""

\* C4: no partial artifact is delivered: chrome.downloads.download is called
\* at most once in a run, in a full-page run only after every cell of the
\* grid was captured and the composite produced, and never in a run that
\* ends by an error of preparation, tile capture or compositing.
C4_NoPartialArtifact ==
    /\ \A i \in Invocations : NoPartialArtifact(run[i])
    /\ NoPartialArtifact(step.ended)
    /\ (step.sent.kind = "error" /\ step.sent.error # ErrDownload) =>
          step.ended.downloads = 0

\* C4 witness: a full-page run of a 2x3 grid is suspended in its one call of
\* chrome.downloads.download.
C4_Witness ==
    \E i \in Invocations :
        /\ pc[i] = "download" /\ run[i].fullPage
        /\ run[i].downloads = 1 /\ Len(run[i].images) = 6

\* C9: a viewport width or height <= 0 fails the planning before any scroll
\* or capture: no run is in its capture loop with such metrics or with a
\* segment count that is not finite.
C9_InvalidGeometryFails ==
    \A i \in Invocations :
        InCaptureLoop(i) /\ run[i].fullPage =>
            /\ run[i].pageInfo.viewportWidth > 0
            /\ run[i].pageInfo.viewportHeight > 0
            /\ run[i].totalSegments.kind = "num"

\* What C10 asks of a call r of captureScreenshotWithRetry, under way or just
\* left: if no attempt answered an empty value, the primitive was called at
\* most maxRetries times, every attempt before the last was rate-limited,
\* and once an attempt answered data the call returned that data and called
\* the primitive no more.
Answered(o) == o \notin {"rateLimited", "error"}
RetryContract(r, at) ==
    (\A k \in 1..Len(r.log) : r.log[k] # "") =>
        /\ r.primCalls <= MaxRetries
        /\ \A k \in 1..(Len(r.log) - 1) : r.log[k] = "rateLimited"
        /\ \A k \in 1..Len(r.log) :
              Answered(r.log[k]) =>
                  /\ r.screenshot = r.log[k]
                  /\ r.primCalls = k
                  /\ at \notin {"capture", "backoff"}

\* C10: for a primitive whose attempts return image data or fail, one call
\* of captureScreenshotWithRetry invokes it at most maxRetries (3) times and
\* returns the data of the first successful attempt.
C10_AtMostMaxRetries ==
    /\ \A i \in Invocations : RetryContract(CallOf(run[i]), pc[i])
    /\ RetryContract(step.call, "returned")

\* C10 witness: a call returned the data of its third attempt, after two
\* rate-limited ones, and the tile was pushed.
C10_Witness ==
    /\ step.call.log = <<"rateLimited", "rateLimited", ImageData>>
    /\ step.call.screenshot = ImageData
    /\ step.call.primCalls = 3
    /\ step.inv \in Invocations
    /\ Len(run[step.inv].images) = 1

\* The rate-limited attempts of a call so far.
RateLimited(log) == Cardinality({k \in 1..Len(log) : log[k] = "rateLimited"})

\* What C11 asks of a call r of captureScreenshotWithRetry, under way (at the
\* await `at`) or just left: one backoff wait per rate-limited attempt, the
\* n-th of min(1000 * n, 3000) ms; no primitive call is outstanding while a
\* wait runs, and the next one is made only after it; two rate-limited
\* attempts and a successful one make a call that has returned that result
\* after waits of 1000 and 2000 ms and three primitive invocations.
BackoffContract(r, at) ==
    /\ Len(r.waits) = RateLimited(r.log)
    /\ \A n \in 1..Len(r.waits) :
          r.waits[n] = (IF 1000 * n < 3000 THEN 1000 * n ELSE 3000)
    /\ at = "backoff" =>
          /\ r.primCalls = Len(r.log)
          /\ r.log[Len(r.log)] = "rateLimited"
          /\ Len(r.notes) = Len(r.waits) - 1
    /\ at = "capture" =>
          /\ r.primCalls = Len(r.log) + 1
          /\ Len(r.notes) = Len(r.waits)
    /\ r.log = <<"rateLimited", "rateLimited", ImageData>> =>
          /\ at = "returned"
          /\ r.screenshot = ImageData
          /\ r.waits = <<1000, 2000>>
          /\ r.primCalls = 3

\* C11: after the n-th rate-limited attempt the capturer waits
\* min(1000 * n, 3000) ms before the next attempt; a primitive that is
\* rate-limited twice and then succeeds makes the capturer return that result
\* after exactly two backoff waits, of 1000 then 2000 ms, and three primitive
\* invocations.
C11_LinearBackoff ==
    /\ \A i \in Invocations : BackoffContract(CallOf(run[i]), pc[i])
    /\ BackoffContract(step.call, "returned")

\* C11 witness: a visible-area run whose one capture call has just returned
\* the data of its third attempt, after waits of 1000 and 2000 ms.
C11_Witness ==
    /\ step.call.log = <<"rateLimited", "rateLimited", ImageData>>
    /\ step.call.waits = <<1000, 2000>>
    /\ step.got = ImageData
    /\ step.inv \in Invocations
    /\ ~run[step.inv].fullPage
    /\ pc[step.inv] \in {"download", "singleTabsQuery"}

\* C12: a capture failure that is no rate-limit signal leaves the capturer
\* in the turn in which it arrives: it is the last attempt of the call, no
\* backoff wait and no retry notification is made for it (there are as many
\* of each as rate-limited attempts before it), no primitive call follows,
\* and the error ends the run and is sent to the caller; this holds after
\* any number of rate-limited attempts.
C12_OtherFailurePropagates ==
    /\ (\E k \in 1..Len(step.call.log) : step.call.log[k] = "error") =>
          /\ step.got = "error"
          /\ step.call.log[Len(step.call.log)] = "error"
          /\ \A k \in 1..(Len(step.call.log) - 1) : step.call.log[k] # "error"
          /\ step.call.primCalls = Len(step.call.log)
          /\ Len(step.call.waits) = RateLimited(step.call.log)
          /\ Len(step.call.notes) = RateLimited(step.call.log)
          /\ step.call.screenshot = ""
          /\ step.sent = [kind |-> "error", error |-> ErrPrimitive]
          /\ ~Active(step.inv)
    /\ \A i \in Invocations : \A k \in 1..Len(run[i].log) : run[i].log[k] # "error"

\* C12 witness: the third attempt of a call failed with another error after
\* two rate-limited attempts, in the capture of the second tile of a run.
C12_Witness ==
    /\ step.got = "error"
    /\ step.call.log = <<"rateLimited", "rateLimited", "error">>
    /\ step.call.waits = <<1000, 2000>>
    /\ Len(step.ended.images) = 1

\* The last maxRetries attempts of a call were all rate-limited.
EndsExhausted(log) ==
    /\ Len(log) >= MaxRetries
    /\ \A k \in (Len(log) - MaxRetries + 1)..Len(log) : log[k] = "rateLimited"

\* C13: when maxRetries consecutive attempts are all rate-limited,
\* captureScreenshotWithRetry makes no further attempt and fails with 'Failed
\* to capture screenshot after multiple retries'; it returns no image data:
\* no tile is appended for the cell and nothing is exported.
C13_ExhaustionFails ==
    /\ \A i \in Invocations :
          EndsExhausted(run[i].log) =>
              /\ pc[i] = "backoff"
              /\ run[i].primCalls = Len(run[i].log)
              /\ run[i].screenshot = ""
    /\ EndsExhausted(step.call.log) =>
          /\ step.got = "timer"
          /\ step.call.screenshot = ""
          /\ step.call.primCalls = Len(step.call.log)
          /\ step.sent = [kind |-> "error", error |-> ErrExhausted]
          /\ ~Active(step.inv)
          /\ step.ended.downloads = 0
          /\ step.ended.fullPage =>
                /\ step.tileError = ErrExhausted
                /\ \A k \in 1..Len(step.ended.images) :
                      ~(step.ended.images[k].x = step.ended.x
                        /\ step.ended.images[k].y = step.ended.y)

\* C13 witness: the call for the second tile of a run has just failed after
\* three rate-limited attempts.
C13_Witness ==
    /\ step.call.log = <<"rateLimited", "rateLimited", "rateLimited">>
    /\ step.sent = [kind |-> "error", error |-> ErrExhausted]
    /\ step.ended.fullPage
    /\ Len(step.ended.images) = 1

\* C14: the scroll step of a tile always completes: a run that awaits the
\* scroll script leaves that await, whether or not the page comes within
\* tolerance of the requested position.
C14_ScrollStepCompletes ==
    \A i \in Invocations : (pc[i] = "scroll") ~> (pc[i] # "scroll")

\* The locals of the run that took the last turn, running or just ended.
LastRun == IF Active(step.inv) THEN run[step.inv] ELSE step.ended

\* A call of captureScreenshotWithRetry returned the value step.got in the
\* last turn (it leaves by a throw in the turn of an error or of a timer).
CapturerReturned ==
    /\ step.inv \in Invocations
    /\ step.call.primCalls > 0
    /\ step.got \notin {"timer", "error"}

\* C15: when the value the capturer returns for a tile is not encoded image
\* data, the run fails in that turn with 'Invalid screenshot data received
\* for segment': the tile is not appended, no further cell is scrolled to or
\* captured, no tile set goes to the compositor and nothing is exported; the
\* tiles a run holds all carry image data.
C15_InvalidTileAborts ==
    /\ (CapturerReturned /\ LastRun.fullPage /\ step.got # ImageData) =>
          /\ step.tileError = ErrInvalidTile
          /\ step.sent = [kind |-> "error", error |-> ErrInvalidTile]
          /\ ~Active(step.inv)
          /\ ~isCapturing
          /\ \A k \in 1..Len(step.ended.images) :
                ~(step.ended.images[k].x = step.ended.x
                  /\ step.ended.images[k].y = step.ended.y)
          /\ step.ended.scrolls = Len(step.ended.images) + 1
          /\ step.ended.segmentIndex = Len(step.ended.images)
          /\ step.ended.format = ""
          /\ step.ended.composite = ""
          /\ step.ended.downloads = 0
    /\ \A i \in Invocations : \A k \in 1..Len(run[i].images) :
          run[i].images[k].dataUrl = ImageData
    /\ \A k \in 1..Len(step.ended.images) : step.ended.images[k].dataUrl = ImageData

\* C15 witness: the capturer returned a value that is no image data for the
\* third cell of a run, on the second attempt of the call.
C15_Witness ==
    /\ CapturerReturned
    /\ step.got = "garbage"
    /\ step.call.log = <<"rateLimited", "garbage">>
    /\ step.tileError = ErrInvalidTile
    /\ Len(step.ended.images) = 2

\* The tiles of images that carry the key (x, y).
TilesAt(images, x, y) == {k \in 1..Len(images) : images[k].x = x /\ images[k].y = y}

\* The awaits of a full-page run after captureFullPage has returned.
AfterCaptureFullPage == {"tabsQuery", "combine", "pdfProcess", "pdfTabsQuery",
                         "pdfOpen", "download"}

\* What C16 asks of the locals r of a full-page run: no key twice, every key
\* inside the grid, and, once captureFullPage has returned, one tile for each
\* of the segmentsX * segmentsY cells.
OneTilePerCell(r, returned) ==
    /\ \A k \in 1..Len(r.images) :
          /\ Cardinality(TilesAt(r.images, r.images[k].x, r.images[k].y)) = 1
          /\ JsLess(r.images[k].x, r.segmentsX) /\ r.images[k].x >= 0
          /\ JsLess(r.images[k].y, r.segmentsY) /\ r.images[k].y >= 0
    /\ returned =>
          /\ r.segmentsX.kind = "num" /\ r.segmentsY.kind = "num"
          /\ Len(r.images) = r.segmentsX.n * r.segmentsY.n
          /\ \A x \in 0..(r.segmentsX.n - 1), y \in 0..(r.segmentsY.n - 1) :
                Cardinality(TilesAt(r.images, x, y)) = 1

\* C16: at every point of a run the collected tiles hold at most one tile
\* per (x, y) key, and when captureFullPage has returned they hold exactly
\* one tile for every cell of the grid: no duplicates and no gaps.
C16_OneTilePerCell ==
    /\ \A i \in Invocations :
          run[i].fullPage => OneTilePerCell(run[i], pc[i] \in AfterCaptureFullPage)
    /\ step.ended.fullPage =>
          OneTilePerCell(step.ended, step.sent.kind = "success")

\* C16 witness: captureFullPage has just returned the six tiles of a grid of
\* two columns and three rows.
C16_Witness ==
    \E i \in Invocations :
        /\ pc[i] = "tabsQuery" /\ run[i].fullPage
        /\ run[i].segmentsX = Num(2) /\ run[i].segmentsY = Num(3)
        /\ Len(run[i].images) = 6
        /\ step.got = ImageData

\* The tiles of r are as many as the cells of its grid, and each carries
\* integer geometry and image data.
TileSetComplete(r) ==
    /\ r.totalSegments = Num(Len(r.images))
    /\ \A k \in 1..Len(r.images) :
          /\ r.images[k].dataUrl = ImageData
          /\ r.images[k].x \in Nat /\ r.images[k].y \in Nat
          /\ r.images[k].width \in Int /\ r.images[k].height \in Int

\* The last turn ended the capture loop of a full-page run, or found it
\* empty: the run went on to the compositor or ended by an error that is not
\* the error of a tile capture.
LoopLeft ==
    /\ step.inv \in Invocations
    /\ step.got \in {"metrics", "timer", ImageData}
    /\ step.tileError = ""
    /\ IF Active(step.inv)
       THEN run[step.inv].fullPage /\ pc[step.inv] = "tabsQuery"
       ELSE step.ended.fullPage /\ step.sent.kind = "error"

----------------------------------------------------------------------------
(* Claims about the scaling of the composite (ScaleSpec) *)

Composited == gpc = "composited"

\* The unscaled sides of the composite, from the grid and its first tile.
UnscaledWidth == plan.segmentsX.n * plan.cells[1].width
UnscaledHeight == plan.segmentsY.n * plan.cells[1].height
LongerSide == IF UnscaledWidth > UnscaledHeight THEN UnscaledWidth ELSE UnscaledHeight

\* The product a * b of two naturals below 2^20, as <<hi, lo>> with
\* a * b = hi * 1000 + lo and lo < 1000.
Wide(a, b) ==
    LET low == (a % 1000) * b
    IN  <<(a \div 1000) * b + (low \div 1000), low % 1000>>
WideLeq(p, q) == p[1] < q[1] \/ (p[1] = q[1] /\ p[2] <= q[2])

\* w = floor(side * scale): w * den <= side * num < (w + 1) * den
IsFloorOfScaled(w, side, scale) ==
    /\ WideLeq(Wide(w, scale.den), Wide(side, scale.num))
    /\ ~WideLeq(Wide(w + 1, scale.den), Wide(side, scale.num))

\* C18: with totalWidth = (maxGridX + 1) * tileWidth and totalHeight =
\* (maxGridY + 1) * tileHeight, if either exceeds 32767 the scale is
\* min(32767 / totalWidth, 32767 / totalHeight, 1), which is 32767 over the
\* longer side; the composite fails with 'Page too large to process' exactly
\* when that scale is below 0.1, that is when the longer side exceeds 327670;
\* otherwise the canvas sides are the floors of the scaled sides and every
\* draw position and size is the unscaled one times the scale.  A 3x3 grid
\* of tiles of 20000 x 20000 has totalWidth 60000 and scale 32767 / 60000.
C18_ScalingRule ==
    Composited =>
        /\ canvas.totalWidth = UnscaledWidth
        /\ canvas.totalHeight = UnscaledHeight
        /\ (UnscaledWidth > 32767 \/ UnscaledHeight > 32767) =>
              canvas.scale = [num |-> 32767, den |-> LongerSide]
        /\ (canvas.error = ErrPageTooLarge) <=> (10 * canvas.scale.num < canvas.scale.den)
        /\ (canvas.error = ErrPageTooLarge) <=> (LongerSide > 327670)
        /\ canvas.error \in {"", ErrPageTooLarge}
        /\ canvas.error = "" =>
              /\ IsFloorOfScaled(canvas.width, UnscaledWidth, canvas.scale)
              /\ IsFloorOfScaled(canvas.height, UnscaledHeight, canvas.scale)
              /\ Len(canvas.draws) = Len(plan.cells)
              /\ \A k \in 1..Len(plan.cells) :
                    LET c == plan.cells[k]
                        d == canvas.draws[k]
                    IN  /\ d.scale = canvas.scale
                        /\ d.dx = c.x * c.width
                        /\ d.dy = c.y * c.height
                        /\ d.dw = c.width
                        /\ d.dh = c.height
        /\ (plan.segmentsX = Num(3) /\ plan.segmentsY = Num(3)
            /\ plan.cells[1].width = 20000 /\ plan.cells[1].height = 20000) =>
              /\ canvas.totalWidth = 60000
              /\ canvas.scale = [num |-> 32767, den |-> 60000]
              /\ canvas.error = ""
              /\ canvas.width = 32767 /\ canvas.height = 32767

\* C18 witness: the 3x3 grid of 20000 x 20000 tiles has been composited at
\* scale 32767 / 60000.
C18_Witness ==
    /\ Composited
    /\ plan.segmentsX = Num(3) /\ plan.segmentsY = Num(3)
    /\ plan.cells[1].width = 20000 /\ plan.cells[1].height = 20000
    /\ canvas.scale = [num |-> 32767, den |-> 60000]
    /\ canvas.error = ""

\* C19: on every successful composite the scale is 1 whenever both unscaled
\* sides are at most 32767 and below 1 only when one of them exceeds 32767;
\* then 0.1 <= scale < 1 and both canvas sides, floor(totalWidth * scale) and
\* floor(totalHeight * scale), are at most 32767.
C19_ScaleBounds ==
    (Composited /\ canvas.error = "") =>
        /\ canvas.scale.den > 0 /\ canvas.scale.num > 0
        /\ (UnscaledWidth <= 32767 /\ UnscaledHeight <= 32767) =>
              canvas.scale.num = canvas.scale.den
        /\ canvas.scale.num <= canvas.scale.den
        /\ canvas.scale.num < canvas.scale.den =>
              /\ UnscaledWidth > 32767 \/ UnscaledHeight > 32767
              /\ 10 * canvas.scale.num >= canvas.scale.den
        /\ (UnscaledWidth > 32767 \/ UnscaledHeight > 32767) =>
              canvas.scale.num < canvas.scale.den
        /\ canvas.width <= 32767 /\ canvas.height <= 32767
        /\ IsFloorOfScaled(canvas.width, UnscaledWidth, canvas.scale)
        /\ IsFloorOfScaled(canvas.height, UnscaledHeight, canvas.scale)

\* C19 witness: a composite of 10 columns of 32767 pixels and one row of
\* 20000: the scale is exactly 0.1 and the canvas 32767 by 2000.
C19_Witness ==
    /\ Composited /\ canvas.error = ""
    /\ UnscaledWidth = 327670 /\ UnscaledHeight = 20000
    /\ 10 * canvas.scale.num = canvas.scale.den
    /\ canvas.width = 32767 /\ canvas.height = 2000

----------------------------------------------------------------------------
(* Claims about the compositing step of a run (Spec) *)

\* C20: when a tile fails to load, or has not loaded 10 s after the script
\* asked for it, the composite fails as a whole with an error that names
\* that tile by its place in the tile set; the run ends in the turn that
\* reads the error, with 'Failed to combine images' and the script's message
\* sent to the caller, no composite kept and nothing exported.
C20_TileDecodeFailure ==
    step.failedTile # 0 =>
        /\ step.failedTile \in 1..Len(step.ended.images)
        /\ step.scriptError.message \in {"Failed to load image", "Timeout loading image"}
        /\ step.scriptError.index = step.failedTile
        /\ step.got = "error"
        /\ step.sent = [kind |-> "error", error |-> ErrCombine]
        /\ ~Active(step.inv)
        /\ ~isCapturing
        /\ step.ended.format \in {"png", "jpeg"}
        /\ step.ended.composite = ""
        /\ step.ended.downloads = 0

\* C20 witness: the fourth of the six tiles of a run had not loaded after
\* 10 s, and the run has just failed.
C20_Witness ==
    /\ step.failedTile = 4
    /\ step.scriptError = [message |-> "Timeout loading image", index |-> 4]
    /\ Len(step.ended.images) = 6
    /\ step.sent.kind = "error"
    /\ step.ended.downloads = 0

----------------------------------------------------------------------------
(* Claims about the phases of a run (Spec) *)

\* The last turn read the failure or the empty answer of the dimension
\* query of a full-page run (a later script of such a run is started only
\* after options.format was read).
DimensionQueryFailed ==
    /\ step.inv \in Invocations
    /\ step.got \in {"throws", "empty"}
    /\ LastRun.fullPage
    /\ LastRun.format = ""

\* C21: a rejection of the preparation script does not end the run: the run
\* goes on to the dimension query (to the capture, for the visible area)
\* with the guard held and nothing sent; a rejection or an empty answer of
\* the dimension query ends the run with an error before any scroll command
\* or capture call was made.
C21_PrepareNonFatalDimensionsFatal ==
    /\ step.got = "prepareFailed" =>
          /\ step.sent = NoResponse
          /\ Active(step.inv)
          /\ isCapturing
          /\ pc[step.inv] = (IF run[step.inv].fullPage THEN "dimensions" ELSE "capture")
    /\ DimensionQueryFailed =>
          /\ step.sent = [kind |-> "error",
                          error |-> IF step.got = "throws"
                                    THEN "Unable to access page dimensions. Please ensure the page is fully loaded."
                                    ELSE "Failed to retrieve page dimensions"]
          /\ ~Active(step.inv)
          /\ ~isCapturing
          /\ step.ended.scrolls = 0
          /\ step.ended.images = <<>>
          /\ step.call.primCalls = 0
          /\ step.ended.downloads = 0
    /\ \A i \in Invocations :
          pc[i] = "dimensions" =>
              run[i].scrolls = 0 /\ run[i].primCalls = 0 /\ run[i].images = <<>>

\* C21 witness: the preparation script of a full-page run has just been
\* rejected, and the run awaits its dimension query.
C21_Witness ==
    /\ step.got = "prepareFailed"
    /\ step.inv \in Invocations
    /\ run[step.inv].fullPage
    /\ pc[step.inv] = "dimensions"
    /\ isCapturing

\* C22: a failure while the PDF wrapper is produced, the failure that the
\* script building and opening the wrapper reports included, ends the run by
\* an error sent to the caller: success with the filename 'PDF' is answered
\* only in the turn that read the script's report of success.
C22_PdfFailureFails ==
    /\ (step.sent.kind = "success" /\ step.sent.filename = <<"PDF">>) => step.got = "ok"
    /\ (step.inv \in Invocations /\ step.got = "failed") =>
          /\ step.sent.kind = "error"
          /\ ~Active(step.inv)


----------------------------------------------------------------------------
(* Claims about the page helper (PageSpec) *)

\* No promise that waitForImages created is unresolved: every image has
\* loaded, failed or reached its 5-second timeout.
ImagesWaitedFor == \A k \in Images : page.promises[k] = 0

\* C23: when options.waitForImages is true, prepareForScreenshot has not
\* completed, and no tile has been captured, while an image of the page is
\* still neither loaded nor failed nor timed out.
C23_PrepareWaitsForImages ==
    (page.prepared > 0 /\ page.options.waitForImages) =>
        ImagesWaitedFor


----------------------------------------------------------------------------
(* Claims about the order of the capture loop (Spec) *)

\* The place of the loop's current cell in row-major order, from 0: rows
\* of segmentsX cells, or one endless row if segmentsX is not finite.
RowMajorIndex(r) ==
    IF r.segmentsX.kind = "num" THEN r.y * r.segmentsX.n + r.x ELSE r.x

InTileLoop(i) == InCaptureLoop(i) /\ run[i].fullPage

\* C24: the n-th cell the loop scrolls to is the n-th cell in row-major
\* order: y is the outer loop and x the inner one.
C24_RowMajorOrder ==
    \A i \in Invocations :
        InTileLoop(i) =>
            /\ JsLess(run[i].x, run[i].segmentsX)
            /\ JsLess(run[i].y, run[i].segmentsY)
            /\ run[i].segmentsX.kind # "num" => run[i].y = 0
            /\ RowMajorIndex(run[i]) = run[i].scrolls - 1

\* The loop has wrapped from the end of a row of two or more cells to the
\* start of the next one.
C24_Witness ==
    \E i \in Invocations :
        /\ InTileLoop(i)
        /\ run[i].segmentsX.kind = "num" /\ run[i].segmentsX.n >= 2
        /\ run[i].x = 0 /\ run[i].y = 1
        /\ run[i].scrolls = run[i].segmentsX.n + 1


\* The awaits one tile passes through, in order: the scroll script, the
\* 500 ms and 200 ms settle timers, the capture primitive (with its backoff
\* timer between attempts), and the pacing timer before the next scroll.
TileSteps ==
    {<<"scroll", "stable500">>, <<"stable500", "stable200">>,
     <<"stable200", "capture">>, <<"capture", "backoff">>,
     <<"backoff", "capture">>, <<"capture", "pace">>, <<"pace", "scroll">>,
     <<"capture", "tabsQuery">>, <<"capture", "idle">>, <<"backoff", "idle">>}

\* The last turn was one of a full-page run's capture loop and left the
\* await it resumed from.
TileTurn ==
    /\ step.inv \in Invocations
    /\ LastRun.fullPage
    /\ step.from \in {"scroll", "stable500", "stable200", "capture", "backoff", "pace"}
    /\ pc[step.inv] # step.from

\* Calls of the capture primitive that have not settled.
Outstanding(i) == run[i].primCalls - Len(run[i].log)

\* C25: tiles are captured one at a time: scroll, settle delay, capture,
\* pacing delay; a scroll is issued only when every earlier scroll's tile
\* has been captured, and at most one call of the capture primitive is
\* outstanding.
C25_SequentialTiles ==
    /\ TileTurn => <<step.from, pc[step.inv]>> \in TileSteps
    /\ Cardinality({i \in Invocations : pc[i] = "capture"}) <= 1
    /\ \A i \in Invocations :
          /\ Outstanding(i) = IF pc[i] = "capture" THEN 1 ELSE 0
          /\ InTileLoop(i) =>
                run[i].scrolls = Len(run[i].images) + (IF pc[i] = "pace" THEN 0 ELSE 1)

\* The second scroll has been issued, after the first tile was captured and
\* its pacing delay has passed.
C25_Witness ==
    \E i \in Invocations :
        /\ InTileLoop(i) /\ pc[i] = "scroll"
        /\ run[i].scrolls = 2 /\ Len(run[i].images) = 1
        /\ step.inv = i /\ step.from = "pace"

\* The phase of a full-page run suspended at an await: 1 prepare,
\* 2 dimension query, 3 tile captures, 4 compositing (createPDF's or
\* combineImages' tab query and in-page script), 5 export (the download, or
\* generateAndDownloadPDF), 6 over: answered Done or Failed.
Phase(at) ==
    CASE at = "prepare" -> 1
      [] at = "dimensions" -> 2
      [] at \in {"scroll", "stable500", "stable200", "capture", "backoff", "pace"} -> 3
      [] at \in {"tabsQuery", "combine", "pdfProcess"} -> 4
      [] at \in {"download", "pdfTabsQuery", "pdfOpen"} -> 5
      [] OTHER -> 6

\* The last turn took a run from the await step.from to the await it is at
\* now, or ended it: which phases that may join.
PhaseStep ==
    step.inv \in Invocations =>
        /\ step.from = "idle" => pc[step.inv] \in {"idle", "prepare"}
        /\ (step.from # "idle" /\ LastRun.fullPage) =>
              \/ Phase(pc[step.inv]) \in {Phase(step.from), Phase(step.from) + 1}
              \/ pc[step.inv] = "idle" /\ step.sent.kind = "error"

PhaseReady ==
    \A i \in Invocations :
        (run[i].fullPage /\ Phase(pc[i]) \in {4, 5}) =>
            /\ run[i].totalSegments = Num(Len(run[i].images))
            /\ Len(run[i].images) >= 1
            /\ \A k \in 1..Len(run[i].images) : IsImageData(run[i].images[k].dataUrl)
            /\ Phase(pc[i]) = 5 => run[i].composite = ImageData

\* C26: a full-page run passes through prepare, dimension query, tile
\* captures, compositing and export in that order and is then answered;
\* compositing starts only when every tile has been captured and validated,
\* export only when the composite exists, success is answered only from
\* export; an error can end the run from any phase, and an ended run does
\* nothing more.
C26_PhaseOrder == PhaseStep /\ PhaseReady

\* A full-page run was answered success after its download.
C26_Witness ==
    /\ step.sent.kind = "success"
    /\ step.ended.fullPage
    /\ step.from = "download"
    /\ step.ended.composite = ImageData

----------------------------------------------------------------------------
(* Claims about progress and pacing (Spec) *)

\* The last turn appended a tile: the capture primitive of a full-page run
\* answered image data.
TileAppended == step.got = ImageData /\ LastRun.fullPage

\* p is k / n * 80 rounded to the nearest integer (halves upwards), plus 20
IsTileProgress(p, k, n) ==
    /\ 2 * n * (p - 20) - n <= 160 * k
    /\ 160 * k < 2 * n * (p - 20) + n

\* C27: the progress notified after the k-th tile of N is appended is
\* round(k / N * 80) + 20, an integer from 20 to 100, and every progress
\* value notified is an integer from 0 to 100.
C27_ProgressValues ==
    /\ \A j \in 1..Len(step.progress) :
          step.progress[j].kind = "num" /\ step.progress[j].n \in 0..100
    /\ (TileAppended /\ LastRun.totalSegments.kind = "num") =>
          /\ Len(step.progress) >= 1
          /\ LastRun.segmentIndex \in 1..LastRun.totalSegments.n
          /\ IsTileProgress(step.progress[1].n, LastRun.segmentIndex,
                            LastRun.totalSegments.n)
          /\ step.progress[1].n \in 20..100

\* The first of three tiles was appended: round(80 / 3) + 20 = 47.
C27_Witness ==
    /\ TileAppended
    /\ LastRun.totalSegments = Num(3)
    /\ LastRun.segmentIndex = 1
    /\ step.progress = <<Num(47)>>


\* The pacing interval of each capture speed, in milliseconds.
PacingInterval(speed) ==
    IF speed = "slow" THEN 1000 ELSE IF speed = "fast" THEN 200 ELSE 500

\* C28: after every tile but the last the loop sleeps the interval of
\* options.captureSpeed (slow 1000 ms, medium 500 ms, fast 200 ms, 500 ms
\* for any other value) before it scrolls to the next tile, and it does not
\* sleep after the last tile.
C28_Pacing ==
    /\ TileAppended =>
          IF LastRun.totalSegments = Num(Len(LastRun.images))
          THEN pc[step.inv] # "pace" /\ step.paced = 0
          ELSE /\ pc[step.inv] = "pace"
               /\ step.paced = PacingInterval(LastRun.captureSpeed)
    /\ (TileTurn /\ pc[step.inv] = "scroll") => step.from = "pace"
    /\ (TileTurn /\ pc[step.inv] = "pace") => TileAppended

\* The loop sleeps 1000 ms after the first tile of a slow run.
C28_Witness ==
    \E i \in Invocations :
        /\ pc[i] = "pace" /\ step.inv = i
        /\ run[i].captureSpeed = "slow"
        /\ step.paced = 1000
        /\ Len(run[i].images) = 1


----------------------------------------------------------------------------
(* Claims about the sort of the tiles (SortSpec) *)

\* How often tile t occurs in the sequence s.
Occurrences(s, t) == Cardinality({k \in 1..Len(s) : s[k] = t})

\* C29: the sequence captureFullPage returns to the compositor is in
\* ascending order of row y and, within a row, of column x, and holds
\* exactly the collected tiles: none added, dropped or altered.
C29_SortedPermutation ==
    gpc = "sorted" =>
        /\ \A k \in 1..(Len(canvas.images) - 1) :
              \/ canvas.images[k].y < canvas.images[k + 1].y
              \/ /\ canvas.images[k].y = canvas.images[k + 1].y
                 /\ canvas.images[k].x <= canvas.images[k + 1].x
        /\ Len(canvas.images) = Len(plan.images)
        /\ \A t \in SortInputs : Occurrences(canvas.images, t) = Occurrences(plan.images, t)

\* Three tiles collected in descending order, two of them in one row, were
\* sorted.
C29_Witness ==
    /\ gpc = "sorted"
    /\ Len(plan.images) = 3
    /\ plan.images[1].y = 1 /\ plan.images[1].x = 1
    /\ plan.images[2].y = 1 /\ plan.images[2].x = 0
    /\ plan.images[3].y = 0
    /\ canvas.images # plan.images


----------------------------------------------------------------------------
(* Claims about the decodes of the compositing script (DecodeSpec) *)

\* The rectangle the script draws for tile k.
RectOf(k) == DrawRect(plan.images[k], canvas.scale)

\* C30: whatever the order in which the tiles' decodes complete, the canvas
\* is encoded only when every tile has been decoded and drawn, and the
\* draws it then holds are the same set: one for each tile.
C30_EncodeAfterAllDraws ==
    canvas.result.kind = "image" =>
        /\ \A k \in DOMAIN plan.images :
              canvas.img[k] = "loaded" /\ canvas.promise[k] = "resolved"
        /\ Len(canvas.result.draws) = Len(plan.images)
        /\ {canvas.result.draws[j] : j \in DOMAIN canvas.result.draws}
              = {RectOf(k) : k \in DOMAIN plan.images}

\* Three tiles were decoded last tile first, and the canvas was encoded.
C30_Witness ==
    /\ canvas.result.kind = "image"
    /\ Len(plan.images) = 3
    /\ canvas.result.draws = <<RectOf(3), RectOf(2), RectOf(1)>>

----------------------------------------------------------------------------
(* Claims about the draw rectangles (GeomSpec) *)

\* The rectangles of draws a and b share a point of the unscaled canvas.
DrawsOverlap(a, b) ==
    /\ a.dx < b.dx + b.dw /\ b.dx < a.dx + a.dw
    /\ a.dy < b.dy + b.dh /\ b.dy < a.dy + a.dh

\* C31: all tiles of one run carry the same width and the same height,
\* min(viewport extent, scroll extent); so the draw rectangles of distinct
\* grid cells, placed at (gridX * width, gridY * height), never overlap, and
\* all lie inside the unscaled canvas of (maxGridX + 1) * tileWidth by
\* (maxGridY + 1) * tileHeight computed from the first tile.
C31_DisjointDraws ==
    gpc = "composited" =>
        LET n == Len(plan.cells)
            w == IF metrics.viewportWidth < metrics.scrollWidth
                 THEN metrics.viewportWidth ELSE metrics.scrollWidth
            h == IF metrics.viewportHeight < metrics.scrollHeight
                 THEN metrics.viewportHeight ELSE metrics.scrollHeight
        IN  /\ \A k \in 1..n : plan.cells[k].width = w /\ plan.cells[k].height = h
            /\ canvas.totalWidth = (MaxGridX(plan.cells) + 1) * plan.cells[1].width
            /\ canvas.totalHeight = (MaxGridY(plan.cells) + 1) * plan.cells[1].height
            /\ \A k \in 1..n :
                  LET d == canvas.draws[k]
                  IN  /\ d.dx = plan.cells[k].x * w /\ d.dy = plan.cells[k].y * h
                      /\ d.dw = w /\ d.dh = h
                      /\ 0 <= d.dx /\ d.dx + d.dw <= canvas.totalWidth
                      /\ 0 <= d.dy /\ d.dy + d.dh <= canvas.totalHeight
            /\ \A j, k \in 1..n :
                  (plan.cells[j].x # plan.cells[k].x \/ plan.cells[j].y # plan.cells[k].y)
                      => ~DrawsOverlap(canvas.draws[j], canvas.draws[k])

\* C31 witness: the composite of a grid of more than one column and more
\* than one row whose last column and last row were clamped.
C31_Witness ==
    /\ gpc = "composited"
    /\ plan.segmentsX.n > 1 /\ plan.segmentsY.n > 1
    /\ metrics.scrollWidth % metrics.viewportWidth > 0
    /\ metrics.scrollHeight % metrics.viewportHeight > 0
    /\ Len(canvas.draws) = plan.totalSegments.n

----------------------------------------------------------------------------
(* Claims about visible-area runs (Spec) *)

\* The awaits a run with fullPage = false passes through, in order: the
\* prepare script, the capture primitive (with its backoff timer between
\* attempts) of the one call of captureScreenshotWithRetry, then the
\* download, or the tab query and script of createSingleImagePDF and the tab
\* query and script of generateAndDownloadPDF.
SingleSteps ==
    {<<"idle", "prepare">>, <<"prepare", "capture">>, <<"capture", "capture">>,
     <<"capture", "backoff">>, <<"backoff", "capture">>,
     <<"capture", "download">>, <<"capture", "singleTabsQuery">>,
     <<"singleTabsQuery", "singlePdf">>, <<"singlePdf", "pdfTabsQuery">>,
     <<"pdfTabsQuery", "pdfOpen">>}

\* The awaits of the export step of a visible-area run, and those at which
\* the image has been handed on.
SingleExport == {"download", "singleTabsQuery", "singlePdf", "pdfTabsQuery", "pdfOpen"}
SingleHandedOn == {"download", "pdfTabsQuery", "pdfOpen"}

\* The locals r of a visible-area run show no dimension query, no scroll,
\* no tile set and no composite.
NoFullPageWork(r) ==
    /\ r.pageInfo = NoMetrics
    /\ r.totalSegments = Num(0)
    /\ r.scrolls = 0
    /\ r.images = <<>>
    /\ r.segmentIndex = 0
    /\ r.composite = ""

\* C32: a run with fullPage = false captures exactly one image through
\* captureScreenshotWithRetry, performs no dimension query, no scroll and no
\* compositing step, and passes that one image unchanged to the export step.
C32_VisibleAreaRun ==
    /\ (step.inv \in Invocations /\ ~LastRun.fullPage) =>
          /\ pc[step.inv] = "idle" \/ <<step.from, pc[step.inv]>> \in SingleSteps
          /\ NoFullPageWork(LastRun)
          /\ step.sent.kind = "success" =>
                /\ step.from \in {"download", "pdfOpen"}
                /\ step.ended.screenshot # ""
                /\ step.ended.exported = step.ended.screenshot
          /\ (CapturerReturned /\ pc[step.inv] # "idle") =>
                /\ pc[step.inv] \in {"download", "singleTabsQuery"}
                /\ step.from = "capture"
                /\ step.call.screenshot = step.got
                /\ run[step.inv].screenshot = step.got
    /\ \A i \in Invocations :
          (Active(i) /\ ~run[i].fullPage) =>
              /\ NoFullPageWork(run[i])
              /\ pc[i] \in {"prepare", "capture", "backoff"} \cup SingleExport
              /\ pc[i] \in SingleExport =>
                    /\ run[i].screenshot # ""
                    /\ run[i].primCalls = 0
              /\ run[i].exported =
                    (IF pc[i] \in SingleHandedOn THEN run[i].screenshot ELSE "")
              /\ run[i].downloads = (IF pc[i] = "download" THEN 1 ELSE 0)

\* C32 witness: a visible-area run was answered success after the download
\* of the image its one capture call returned.
C32_Witness ==
    /\ step.sent.kind = "success"
    /\ step.from = "download"
    /\ ~step.ended.fullPage
    /\ step.ended.screenshot = ImageData
    /\ step.ended.exported = ImageData
    /\ step.ended.downloads = 1
    /\ step.ended.scrolls = 0

----------------------------------------------------------------------------
(* Claims about the capturer's notifications and waits (Spec) *)

\* C33: the capturer emits exactly one status notification for each retry
\* it performs: when a call of captureScreenshotWithRetry returns or throws,
\* the number of its 'Rate limited, retrying' notifications equals the number
\* of its primitive invocations after the first.  Stated of the calls whose
\* attempts all answered data or failed.
C33_OneNotePerRetry ==
    (step.call.primCalls > 0 /\ \A k \in 1..Len(step.call.log) : step.call.log[k] # "") =>
        Len(step.call.notes) = step.call.primCalls - 1

\* The key and geometry images.push records for the cell the loop is at.
PlannedTile(r) == Tile(CellGeometry(r.pageInfo, r.x, r.y), ImageData)

\* C34: a failure of the scroll command itself (the page-scripting call
\* throws) does not abort the run: nothing is answered, the cell and the
\* tiles stay as they were, the 500 ms and 200 ms settle delays follow and
\* then the capture of that same cell starts; the tile a capture appends is
\* recorded under the grid key of the cell the loop planned.
C34_ScrollFailureTolerated ==
    /\ step.got = "scrollFailed" =>
          /\ step.from = "scroll"
          /\ step.sent = NoResponse
          /\ pc[step.inv] = "stable500"
          /\ run[step.inv].scrollFailed
    /\ \A i \in Invocations :
          run[i].scrollFailed =>
              /\ pc[i] \in {"stable500", "stable200"}
              /\ InTileLoop(i)
              /\ RowMajorIndex(run[i]) = run[i].scrolls - 1
              /\ Len(run[i].images) = run[i].scrolls - 1
    /\ step.scrollFailed =>
          /\ step.sent = NoResponse
          /\ <<step.from, pc[step.inv]>> \in
                {<<"stable500", "stable200">>, <<"stable200", "capture">>}
          /\ RowMajorIndex(run[step.inv]) = run[step.inv].scrolls - 1
          /\ Len(run[step.inv].images) = run[step.inv].scrolls - 1
          /\ pc[step.inv] = "capture" =>
                /\ run[step.inv].primCalls = 1
                /\ run[step.inv].log = <<>>
    /\ TileAppended =>
          /\ LastRun.images[Len(LastRun.images)] = PlannedTile(LastRun)
          /\ Len(LastRun.images) = LastRun.scrolls
          /\ RowMajorIndex(LastRun) = LastRun.scrolls - 1

\* C34 witness: the scroll script for the second cell of a run rejected,
\* both settle delays have passed and the capture of that cell is under way.
C34_Witness ==
    /\ step.scrollFailed
    /\ step.from = "stable200"
    /\ pc[step.inv] = "capture"
    /\ run[step.inv].scrolls = 2
    /\ Len(run[step.inv].images) = 1
    /\ run[step.inv].primCalls = 1

----------------------------------------------------------------------------
(* Claims about the guard's frame (Spec) *)

\* C35: an invocation of captureScreenshot that is rejected with 'Screenshot
\* capture already in progress' changes nothing: isCapturing stays true and
\* the locals of the active run, its tile set among them, stay as they
\* were, and no progress is notified; the guard is cleared only by the exit
\* of the run that set it.
C35_RejectedCallChangesNothing ==
    /\ [][Rejected' =>
             /\ isCapturing /\ isCapturing'
             /\ pc' = pc
             /\ run' = run
             /\ step'.progress = <<>>
             /\ step'.ended = BlankRun]_vars
    /\ [][(isCapturing /\ ~isCapturing') =>
             /\ Active(step'.inv)
             /\ pc'[step'.inv] = "idle"
             /\ RunEnded']_vars

\* C35 witness: a call has just been rejected while a full-page run that
\* holds two tiles or more waits for its download.
C35_Witness ==
    /\ Rejected
    /\ isCapturing
    /\ \E j \in Invocations \ {step.inv} :
          /\ pc[j] = "download"
          /\ run[j].fullPage
          /\ Len(run[j].images) >= 2

----------------------------------------------------------------------------
(* Claims about the capturer's bound (Spec) *)

\* C36: captureScreenshotWithRetry invokes the capture primitive at most
\* maxRetries times in one call, whatever the primitive does, a primitive
\* that returns an empty or undefined result without raising an error
\* included.
C36_BoundedForEveryPrimitive ==
    /\ \A i \in Invocations : run[i].primCalls <= MaxRetries
    /\ step.call.primCalls <= MaxRetries

----------------------------------------------------------------------------
(* Claims about the progress history (Spec) *)

\* The values of s are numbers and none is smaller than the one before it.
NeverDecreases(s) ==
    \A k \in 1..Len(s) :
        /\ s[k].kind = "num"
        /\ k > 1 => s[k - 1].n <= s[k].n

\* C37: the progress values notified during one successful full-page run
\* never decrease: each value sent (capture loop, then 'Processing images',
\* then completion) is >= the value sent before it, and the last value is
\* 100.
C37_ProgressMonotone ==
    (step.sent.kind = "success" /\ step.ended.fullPage) =>
        /\ NeverDecreases(step.ended.progress)
        /\ Len(step.ended.progress) > 0
        /\ step.ended.progress[Len(step.ended.progress)] = Num(100)

----------------------------------------------------------------------------
(* Claims about the waits of an exhausted call (Spec) *)

RECURSIVE TotalWait(_)
TotalWait(waits) == IF waits = <<>> THEN 0 ELSE Head(waits) + TotalWait(Tail(waits))

\* C38: in one capture call the number of backoff waits equals the number
\* of rate-limited attempts observed, the attempt that exhausts the retry
\* budget included: the call fails with 'Failed to capture screenshot after
\* multiple retries' only when the wait of the last rate-limited attempt is
\* over, and three consecutive rate-limit failures incur waits of 1000, 2000
\* and 3000 ms (6000 ms in total) before it does.
C38_WaitsIncludeLastAttempt ==
    /\ \A i \in Invocations :
          /\ Len(run[i].waits) = RateLimited(run[i].log)
          /\ RateLimited(run[i].log) <= MaxRetries
          /\ (pc[i] = "backoff" /\ RateLimited(run[i].log) = MaxRetries) =>
                /\ run[i].waits[MaxRetries] = 3000
                /\ run[i].primCalls = Len(run[i].log)
    /\ Len(step.call.waits) = RateLimited(step.call.log)
    /\ (step.sent.kind = "error" /\ step.sent.error = ErrExhausted) =>
          /\ step.from = "backoff" /\ step.got = "timer"
          /\ RateLimited(step.call.log) = MaxRetries
          /\ step.call.log[Len(step.call.log)] = "rateLimited"
          /\ step.call.waits = <<1000, 2000, 3000>>
          /\ TotalWait(step.call.waits) = 6000
    /\ step.call.log = <<"rateLimited", "rateLimited", "rateLimited">> =>
          /\ step.call.waits = <<1000, 2000, 3000>>
          /\ step.call.primCalls = 3
          /\ step.sent = [kind |-> "error", error |-> ErrExhausted]

\* C38 witness: the one capture call of a visible-area run has failed after
\* three rate-limited attempts and the three waits.
C38_Witness ==
    /\ step.call.log = <<"rateLimited", "rateLimited", "rateLimited">>
    /\ step.call.waits = <<1000, 2000, 3000>>
    /\ step.sent = [kind |-> "error", error |-> ErrExhausted]
    /\ step.from = "backoff"
    /\ ~step.ended.fullPage

----------------------------------------------------------------------------
(* Claims about restorePage (PageSpec) *)

\* The page as restorePage should leave it: every floating element shows
\* the display value the page gave it, no style element of the helper is in
\* document.head, and the helper's two collections are empty.
Restored ==
    /\ page.display = page.authored
    /\ page.headStyles = <<>>
    /\ page.originalStyles = <<>>
    /\ page.injectedElements = <<>>

\* C39: page preparation is undone by restorePage: after any number of
\* prepareForScreenshot calls followed by one restorePage call, every
\* element hidden by cleanupPage has its original display value again, every
\* injected style element is removed, and originalStyles and
\* injectedElements are empty; a second restorePage changes nothing.
C39_RestoreUndoesPrepare ==
    /\ [][RestorePage => Restored']_vars
    /\ [][(RestorePage /\ Restored /\ page.media.opacity = "") => page' = page]_vars

\* C39 witness: a page prepared twice, the second time with scrollbars
\* hidden, and then restored: an element the page shows as a block, hidden by
\* both preparations, is a block again and no style element is left.
C39_Witness ==
    /\ page.prepared = 2
    /\ page.options.hideScrollbar
    /\ Restored
    /\ \E e \in Elements : page.authored[e] = "block" /\ page.display[e] = "block"

====
